---- MODULE Spec2Model ----
(***************************************************************************)
(* Model of the SolFlow / Nexus strategy pipeline:                         *)
(*   - PnLTracker (trade ledger per strategy, calculatePerformance)        *)
(*   - StrategyExecutor.updatePriceHistory (rolling history per asset)     *)
(*   - PythClient.getPrice / subscribeToPrice, PriceMonitor                *)
(*   - the dashboard's price callback (handleActivateStrategy,             *)
(*     checkStrategyConditions, executeTrade)                              *)
(*                                                                         *)
(* Numbers: prices, amounts and values are integers; every quotient the    *)
(* code computes is kept as an exact fraction <<numerator, denominator>>   *)
(* with a positive denominator and compared by cross-multiplication.       *)
(* Floating-point rounding of IEEE doubles is not modelled.                *)
(***************************************************************************)
EXTENDS Integers, Sequences, FiniteSets, TLC

VARIABLES
    trades,        \* PnLTracker.trades: Map<string, Trade[]>, a function on the recorded names
    priceHistory,  \* StrategyExecutor.priceHistory: Map<string, number[]>
    perf,          \* result of the last calculatePerformance call
    op,            \* the last operation performed (kind and arguments)
    recorded,      \* history variable: every trade passed to recordTrade, per strategy, in call order
    supplied,      \* history variable: every price passed to updatePriceHistory, per asset, in call order
    opCount,       \* number of mutating operations performed so far (bounded)
    priceCache,    \* PythClient.priceCache: Map<string, PriceData>
    lastFetched,   \* history variable: per symbol, the price of the most recent successful fetch
    subscriptions, \* PriceMonitor.subscriptions: Map<string, () => void>, symbol -> poll loop
    subs,          \* the poll loops created by subscribeToPrice that have not returned, by slot
    starting,      \* startMonitoring calls suspended at "await subscribeToPrice"
    parsedStrategy, \* React state parsedStrategy
    activeStrategy, \* React state activeStrategy
    isMonitoring,  \* React state isMonitoring
    currentPrice,  \* React state currentPrice
    dashHistory,   \* React state priceHistory of the dashboard
    tradesState,   \* React state trades
    pendingUpdates, \* setPriceHistory updaters queued and not yet run
    evalLog,       \* history variable: what the condition evaluations of the last render observed
    lastTick,      \* history variable: the last tick of a client's poll loop and how it went
    tickCount      \* number of updaters queued so far (bounded)

coreVars == <<trades, priceHistory, perf, op, recorded, supplied, opCount>>
monitorVars == <<priceCache, lastFetched, subscriptions, subs, starting, parsedStrategy, activeStrategy,
                 isMonitoring, currentPrice, dashHistory, tradesState, pendingUpdates,
                 evalLog, lastTick, tickCount>>

----------------------------------------------------------------------------
(* Bounds *)

MaxOps == 4          \* recordTrade + updatePriceHistory calls in one behaviour

(* Program constants *)

HistoryCap == 200    \* "Keep last 200 prices"

----------------------------------------------------------------------------
(* Input domains *)

Strategies == {"SOL RSI Strategy", "ETH Custom Strategy"}
Assets == {"SOL/USDC", "ETH/USD"}
TickPrices == {94, 100}

Trade(s, t, p, a) ==
    [strategy |-> s, type |-> t, price |-> p, amount |-> a, value |-> p * a,
     status |-> "executed"]

TradeShapes == {<<"buy", 100, 1>>, <<"sell", 110, 1>>, <<"sell", 90, 3>>}

TradeSet == {Trade(s, x[1], x[2], x[3]) : s \in Strategies, x \in TradeShapes}

\* A warm history: what 199 earlier ticks leave behind.
WarmHistory == [i \in 1..(HistoryCap - 1) |-> 100 + (i % 3)]

----------------------------------------------------------------------------
(* Exact fractions *)

Rat(n, d) == <<n, d>>
RatZero == Rat(0, 1)
RatEq(x, y) == x[1] * y[2] = y[1] * x[2]
RatGt(x, y) == x[1] * y[2] > y[1] * x[2]
RatIsZero(x) == x[1] = 0

Max(a, b) == IF a > b THEN a ELSE b
Sign(a) == IF a > 0 THEN 1 ELSE IF a < 0 THEN -1 ELSE 0

RECURSIVE SumSeq(_)
SumSeq(s) == IF s = <<>> THEN 0 ELSE s[1] + SumSeq(Tail(s))

RECURSIVE SumSquares(_)
SumSquares(s) == IF s = <<>> THEN 0 ELSE s[1] * s[1] + SumSquares(Tail(s))

----------------------------------------------------------------------------
(* Map helpers: a Map<string, T[]> is a function whose domain is the set of keys *)

EmptyMap == [k \in {} |-> <<>>]
MapHas(m, k) == k \in DOMAIN m
MapGetOrEmpty(m, k) == IF MapHas(m, k) THEN m[k] ELSE <<>>
MapSet(m, k, v) == [x \in (DOMAIN m) \cup {k} |-> IF x = k THEN v ELSE m[x]]

----------------------------------------------------------------------------
(* PnLTracker *)

\* (mutant) a recordTrade that drops a trade equal to one already in the ledger
recordTradeDedup(m, trade) ==
    LET ts == MapGetOrEmpty(m, trade.strategy)
    IN  IF \E i \in 1..Len(ts) : ts[i] = trade
        THEN m
        ELSE MapSet(m, trade.strategy, Append(ts, trade))

\* recordTrade: create the ledger when missing, then push
recordTradeMap(m, trade) ==
    LET m1 == IF ~MapHas(m, trade.strategy) THEN MapSet(m, trade.strategy, <<>>) ELSE m
    IN  MapSet(m1, trade.strategy, Append(m1[trade.strategy], trade))

\* (mutant) a pairing loop that sizes the pnl by the sell's amount
RECURSIVE pairLoopSellAmount(_, _, _)
pairLoopSellAmount(ts, i, acc) ==
    IF ~(i < Len(ts)) THEN acc
    ELSE IF i + 1 >= Len(ts) THEN acc
    ELSE LET buy == ts[i + 1]
             sell == ts[i + 2]
         IN  IF buy.type = "buy" /\ sell.type = "sell"
             THEN LET pnl == (sell.price - buy.price) * sell.amount
                  IN  pairLoopSellAmount(ts, i + 2,
                               [totalPnL |-> acc.totalPnL + pnl,
                                tradePnLs |-> Append(acc.tradePnLs, pnl),
                                wins |-> IF pnl > 0 THEN acc.wins + 1 ELSE acc.wins])
             ELSE pairLoopSellAmount(ts, i + 2, acc)

\* the pairing loop: for (i = 0; i < trades.length; i += 2); i is 0-based as in the code
RECURSIVE pairLoop(_, _, _)
pairLoop(ts, i, acc) ==
    IF ~(i < Len(ts)) THEN acc
    ELSE IF i + 1 >= Len(ts) THEN acc
    ELSE LET buy == ts[i + 1]
             sell == ts[i + 2]
         IN  IF buy.type = "buy" /\ sell.type = "sell"
             THEN LET pnl == (sell.price - buy.price) * buy.amount
                  IN  pairLoop(ts, i + 2,
                               [totalPnL |-> acc.totalPnL + pnl,
                                tradePnLs |-> Append(acc.tradePnLs, pnl),
                                wins |-> IF pnl > 0 THEN acc.wins + 1 ELSE acc.wins])
             ELSE pairLoop(ts, i + 2, acc)

completedTradesOf(ts) == Len(ts) \div 2

\* (mutant) a loop that keeps the last drawdown instead of the largest
RECURSIVE drawdownLoopLast(_, _, _, _)
drawdownLoopLast(pnls, cumulative, peak, maxDrawdown) ==
    IF pnls = <<>> THEN maxDrawdown
    ELSE LET cum == cumulative + pnls[1]
             pk == IF cum > peak THEN cum ELSE peak
         IN  drawdownLoopLast(Tail(pnls), cum, pk, Rat((pk - cum) * 100, Max(pk, 1)))

\* the max-drawdown loop over tradePnLs
RECURSIVE drawdownLoop(_, _, _, _)
drawdownLoop(pnls, cumulative, peak, maxDrawdown) ==
    IF pnls = <<>> THEN maxDrawdown
    ELSE LET cum == cumulative + pnls[1]
             pk == IF cum > peak THEN cum ELSE peak
             drawdown == Rat((pk - cum) * 100, Max(pk, 1))
         IN  drawdownLoop(Tail(pnls), cum, pk,
                          IF RatGt(drawdown, maxDrawdown) THEN drawdown ELSE maxDrawdown)

\* calculateStdDev squared: population variance, as a fraction
varianceOf(values) ==
    LET n == Len(values)
    IN  Rat(n * SumSquares(values) - SumSeq(values) * SumSeq(values), n * n)

\* sharpeRatio = avgReturn / stdDev holds a square root; the model keeps the
\* real number x = avgReturn / stdDev as sign(x) * x^2, a fraction.
sharpeOf(averageTrade, tradePnLs) ==
    IF Len(tradePnLs) > 0
    THEN LET v == varianceOf(tradePnLs)
         IN  IF v[1] > 0
             THEN Rat(Sign(averageTrade[1]) * averageTrade[1] * averageTrade[1] * v[2],
                      averageTrade[2] * averageTrade[2] * v[1])
             ELSE RatZero
    ELSE Rat(Sign(averageTrade[1]) * averageTrade[1] * averageTrade[1],
             averageTrade[2] * averageTrade[2])

calculatePerformance(m, strategyName) ==
    LET ts == MapGetOrEmpty(m, strategyName)
    IN  IF Len(ts) = 0
        THEN [strategyName |-> strategyName, totalTrades |-> 0, winRate |-> RatZero,
              totalPnL |-> 0, totalPnLPercent |-> RatZero, averageTrade |-> RatZero,
              maxDrawdown |-> RatZero, sharpeRatio |-> RatZero, raised |-> FALSE]
        ELSE LET acc == pairLoop(ts, 0, [totalPnL |-> 0, tradePnLs |-> <<>>, wins |-> 0])
                 completedTrades == completedTradesOf(ts)
                 winRate == IF completedTrades > 0
                            THEN Rat(acc.wins * 100, completedTrades) ELSE RatZero
                 averageTrade == IF completedTrades > 0
                                 THEN Rat(acc.totalPnL, completedTrades) ELSE RatZero
                 firstValue == IF ts[1].value # 0 THEN ts[1].value ELSE 1
             IN  [strategyName |-> strategyName,
                  totalTrades |-> Len(ts),
                  winRate |-> winRate,
                  totalPnL |-> acc.totalPnL,
                  totalPnLPercent |-> Rat(acc.totalPnL * 100, firstValue),
                  averageTrade |-> averageTrade,
                  maxDrawdown |-> drawdownLoop(acc.tradePnLs, 0, 0, RatZero),
                  sharpeRatio |-> sharpeOf(averageTrade, acc.tradePnLs),
                  raised |-> FALSE]

\* (mutant) a lookup that creates the missing ledger, as recordTrade does
tradesAfterPerformanceCreating(m, strategyName) ==
    IF MapHas(m, strategyName) THEN m ELSE MapSet(m, strategyName, <<>>)

\* calculatePerformance only reads this.trades
tradesAfterPerformance(m, strategyName) == m

----------------------------------------------------------------------------
(* StrategyExecutor.updatePriceHistory *)

\* (mutant) a cap that drops the newest sample (pop instead of shift)
capHistoryPop(h) == IF Len(h) > HistoryCap THEN SubSeq(h, 1, Len(h) - 1) ELSE h

\* if (history.length > 200) history.shift()
capHistory(h) == IF Len(h) > HistoryCap THEN Tail(h) ELSE h

\* (mutant) one array shared by every asset already in the map
updatePriceHistoryShared(m, asset, price) ==
    LET m1 == IF ~MapHas(m, asset) THEN MapSet(m, asset, <<>>) ELSE m
    IN  [a \in DOMAIN m1 |-> capHistory(Append(m1[a], price))]

updatePriceHistoryMap(m, asset, price) ==
    LET m1 == IF ~MapHas(m, asset) THEN MapSet(m, asset, <<>>) ELSE m
    IN  MapSet(m1, asset, capHistory(Append(m1[asset], price)))

getPriceHistory(m, asset) == MapGetOrEmpty(m, asset)

----------------------------------------------------------------------------
(* The classes driven directly: any caller, any order *)

NoPerf == [strategyName |-> "", totalTrades |-> 0, winRate |-> RatZero,
           totalPnL |-> 0, totalPnLPercent |-> RatZero, averageTrade |-> RatZero,
           maxDrawdown |-> RatZero, sharpeRatio |-> RatZero, raised |-> FALSE]

NoOp == [kind |-> "none"]
NoTick == [active |-> FALSE, getPrice |-> "none", callback |-> "none"]

MonitorIdle ==
    /\ priceCache = EmptyMap
    /\ lastFetched = EmptyMap
    /\ subscriptions = EmptyMap
    /\ starting = {}
    /\ parsedStrategy = [name |-> "none"]
    /\ activeStrategy = "none"
    /\ isMonitoring = FALSE
    /\ currentPrice = 0
    /\ dashHistory = <<>>
    /\ tradesState = <<>>
    /\ pendingUpdates = <<>>
    /\ evalLog = <<>>
    /\ lastTick = NoTick
    /\ tickCount = 0

CoreInit ==
    /\ MonitorIdle
    /\ subs = <<>>
    /\ trades = EmptyMap
    /\ perf = NoPerf
    /\ op = NoOp
    /\ recorded = [s \in Strategies |-> <<>>]
    /\ opCount = 0
    /\ \/ /\ priceHistory = EmptyMap
          /\ supplied = [a \in Assets |-> <<>>]
       \/ /\ priceHistory = [a \in Assets |-> WarmHistory]
          /\ supplied = [a \in Assets |-> WarmHistory]

RecordTrade(trade) ==
    /\ opCount < MaxOps
    /\ trades' = recordTradeMap(trades, trade)
    /\ recorded' = [recorded EXCEPT ![trade.strategy] = Append(@, trade)]
    /\ op' = [kind |-> "recordTrade", trade |-> trade]
    /\ opCount' = opCount + 1
    /\ UNCHANGED <<priceHistory, perf, supplied>>
    /\ UNCHANGED monitorVars

CalculatePerformance(strategyName) ==
    /\ perf' = calculatePerformance(trades, strategyName)
    /\ trades' = tradesAfterPerformance(trades, strategyName)
    /\ op' = [kind |-> "calculatePerformance", strategyName |-> strategyName]
    /\ UNCHANGED <<priceHistory, recorded, supplied, opCount>>
    /\ UNCHANGED monitorVars

UpdatePriceHistory(asset, price) ==
    /\ opCount < MaxOps
    /\ priceHistory' = updatePriceHistoryMap(priceHistory, asset, price)
    /\ supplied' = [supplied EXCEPT ![asset] = Append(@, price)]
    /\ op' = [kind |-> "updatePriceHistory", asset |-> asset, price |-> price]
    /\ opCount' = opCount + 1
    /\ UNCHANGED <<trades, perf, recorded>>
    /\ UNCHANGED monitorVars

RecordTradeStep == \E trade \in TradeSet : RecordTrade(trade)
CalculatePerformanceStep == \E s \in Strategies : CalculatePerformance(s)
UpdatePriceHistoryStep == \E a \in Assets, p \in TickPrices : UpdatePriceHistory(a, p)

vars == <<coreVars, monitorVars>>

Next ==
    \/ RecordTradeStep
    \/ CalculatePerformanceStep
    \/ UpdatePriceHistoryStep

Init == CoreInit

Spec == Init /\ [][Next]_vars

----------------------------------------------------------------------------
(* Bounds of the monitoring model *)

MaxSubs == 2         \* poll loops that exist at once
MaxTicks == 2        \* updaters the dashboard callback queues in one behaviour

(* Program constants *)

DashCap == 100       \* if (newHistory.length > 100) newHistory.shift()
MinHistory == 20     \* if (history.length < 20) return

----------------------------------------------------------------------------
(* Strategies as StrategyParser.parseStrategy returns them *)

NoStrategy == [name |-> "none"]

PriceCondition(c, v) ==
    [type |-> "price", indicator |-> "undefined", condition |-> c, value |-> v,
     timeframe |-> "15m"]

IndicatorCondition(indicator, c, v, timeframe) ==
    [type |-> "indicator", indicator |-> indicator, condition |-> c, value |-> v,
     timeframe |-> timeframe]

\* parseStrategy("With $3,230 buy ETH when price drops 5%")
DropStrategy ==
    [name |-> "ETH Custom Strategy", asset |-> "ETH/USD",
     entry |-> PriceCondition("<", 5), exit |-> PriceCondition("<", 5),
     maxPosition |-> 3230, riskPercent |-> 10, executionType |-> "market"]

\* parseStrategy("Buy SOL when RSI drops below 30, sell when it crosses 70, max position $500")
SolStrategy ==
    [name |-> "SOL RSI Strategy", asset |-> "SOL/USDC",
     entry |-> PriceCondition("<", 100), exit |-> PriceCondition(">", 100),
     maxPosition |-> 30, riskPercent |-> 10, executionType |-> "market"]

ParsedStrategies == {DropStrategy, SolStrategy}

----------------------------------------------------------------------------
(* PythClient *)

PythFeedSymbols == {"SOL/USD", "BTC/USD", "ETH/USD", "USDC/USD"}

\* PYTH_PRICE_FEEDS[symbol] is defined
hasFeed(symbol) == symbol \in PythFeedSymbols

\* What the provider can answer to one fetch
FetchOutcomes == {"ok", "networkError", "notOk", "emptyPayload"}
FeedPrices == {3420, 3230}

\* basePrices[symbol] || 100 (SOL/USD, 145.50, is no integer and is not monitored here)
basePrice(symbol) ==
    CASE symbol = "BTC/USD" -> 98750
      [] symbol = "ETH/USD" -> 3420
      [] symbol = "USDC/USD" -> 1
      [] OTHER -> 100

\* basePrice * (1 + variation), variation in [-0.01, 0.01)
SimCandidates == {3400, 100, 1, 98000}
SimPrices(symbol) ==
    {p \in SimCandidates :
        99 * basePrice(symbol) <= 100 * p /\ 100 * p < 101 * basePrice(symbol)}

\* the fetch of getPrice answers with a payload exactly when the symbol has a feed
\* (no fetch is made otherwise) and the outcome is "ok"
fetchedAfter(log, symbol, outcome, fetched) ==
    IF hasFeed(symbol) /\ outcome = "ok" THEN MapSet(log, symbol, fetched) ELSE log

\* (mutant) a getPrice whose catch block rethrows
getPriceRethrow(cache, symbol, outcome, fetched, sim) ==
    IF ~hasFeed(symbol)
    THEN [raised |-> TRUE, price |-> 0, cache |-> cache]
    ELSE IF outcome = "ok"
         THEN [raised |-> FALSE, price |-> fetched, cache |-> MapSet(cache, symbol, fetched)]
         ELSE [raised |-> TRUE, price |-> 0, cache |-> cache]

\* getPrice: the record it returns (only the price field is kept), or that it throws,
\* and the cache afterwards
getPrice(cache, symbol, outcome, fetched, sim) ==
    IF ~hasFeed(symbol)
    THEN [raised |-> TRUE, price |-> 0, cache |-> cache]
    ELSE IF outcome = "ok"
         THEN [raised |-> FALSE, price |-> fetched, cache |-> MapSet(cache, symbol, fetched)]
         ELSE IF MapHas(cache, symbol)
              THEN [raised |-> FALSE, price |-> cache[symbol], cache |-> cache]
              ELSE [raised |-> FALSE, price |-> sim, cache |-> cache]

----------------------------------------------------------------------------
(* IndicatorCalculator.calculateRSI.  Prices are whole numbers and the arithmetic is
   exact; the result is in hundredths (50 is 5000), as Math.round(rsi * 100) / 100
   leaves it. *)

MaxSamples == 3     \* prices passed to an indicator
MaxPeriod == 3      \* the period passed to an indicator

\* a number a method returns: a value, or NaN
Number(v) == [nan |-> FALSE, value |-> v]
NaN == [nan |-> TRUE, value |-> 0]

SamplePrices == {10, 11, 14}
SampleLists == UNION { [1..n -> SamplePrices] : n \in 0..MaxSamples }

\* gains += change for change > 0, over recentPrices
RECURSIVE gainsOf(_)
gainsOf(recentPrices) ==
    IF Len(recentPrices) < 2 THEN 0
    ELSE LET change == recentPrices[2] - recentPrices[1]
         IN  (IF change > 0 THEN change ELSE 0) + gainsOf(Tail(recentPrices))

\* losses += Math.abs(change) otherwise
RECURSIVE lossesOf(_)
lossesOf(recentPrices) ==
    IF Len(recentPrices) < 2 THEN 0
    ELSE LET change == recentPrices[2] - recentPrices[1]
         IN  (IF change > 0 THEN 0 ELSE 0 - change) + lossesOf(Tail(recentPrices))

calculateRSI(prices, period) ==
    IF Len(prices) < period + 1 THEN Number(5000)
    ELSE LET recentPrices == SubSeq(prices, Len(prices) - period, Len(prices))
             gains == gainsOf(recentPrices)
             losses == lossesOf(recentPrices)
         IN  \* period = 0: avgGain and avgLoss are 0 / 0, avgLoss === 0 is false,
             \* and NaN runs through rs, rsi and Math.round
             IF period = 0 THEN NaN
             ELSE IF losses = 0 THEN Number(10000)
             ELSE \* rs = gains / losses, rsi = 100 - 100 / (1 + rs), Math.round(rsi * 100)
                  Number((2 * 10000 * gains + (gains + losses)) \div (2 * (gains + losses)))

----------------------------------------------------------------------------
(* StrategyExecutor.checkCondition, for conditions on the price and on the RSI; the
   MACD and Bollinger branches are not modelled, and no condition here uses them *)

DefaultPeriod == 14

\* the RSI branch of checkCondition; value is in whole points, rsi in hundredths
checkRSI(condition, rsi, prevRSI) ==
    CASE condition.condition = "<" -> rsi.value < condition.value * 100
      [] condition.condition = ">" -> rsi.value > condition.value * 100
      [] condition.condition = "crosses_above" ->
            prevRSI.value < condition.value * 100 /\ rsi.value > condition.value * 100
      [] condition.condition = "crosses_below" ->
            prevRSI.value > condition.value * 100 /\ rsi.value < condition.value * 100
      [] OTHER -> FALSE

\* (mutant) a check that takes the previous RSI from the full history too
checkConditionNoPrevious(condition, price, history) ==
    LET rsi == calculateRSI(history, DefaultPeriod) IN checkRSI(condition, rsi, rsi)

checkCondition(condition, price, history) ==
    IF condition.type = "price"
    THEN LET prev == history[Len(history) - 1]
         IN  \* change = (currentPrice - prev) / prev * 100, prev > 0
             CASE condition.condition = "<" -> (price - prev) * 100 < (0 - condition.value) * prev
               [] condition.condition = ">" -> (price - prev) * 100 > condition.value * prev
               [] OTHER -> FALSE
    ELSE IF condition.type = "indicator" /\ condition.indicator = "RSI"
    THEN \* prevRSI = calculateRSI(priceHistory.slice(0, -1))
         checkRSI(condition, calculateRSI(history, DefaultPeriod),
                  calculateRSI(SubSeq(history, 1, Len(history) - 1), DefaultPeriod))
    ELSE FALSE

----------------------------------------------------------------------------
(* The dashboard: the updater passed to setPriceHistory, checkStrategyConditions, executeTrade *)

\* (mutant) an updater that forgets the cap
dashNewHistoryNoCap(prev, price) == Append(prev, price)

\* newHistory = [...prev, price]; if (newHistory.length > 100) newHistory.shift()
dashNewHistory(prev, price) ==
    LET newHistory == Append(prev, price)
    IN  IF Len(newHistory) > DashCap THEN Tail(newHistory) ELSE newHistory

\* (mutant) an evaluation that is handed the history as it was before the tick
evaluatedHistoryStale(prev, newHistory) == prev

\* the history handed to checkStrategyConditions
evaluatedHistory(prev, newHistory) == newHistory

\* executeTrade builds the Trade; closureTrades is the `trades` the closure captured
buildTrade(strategy, type, price, closureTrades) ==
    LET lastAmount == IF Len(closureTrades) > 0 /\ closureTrades[Len(closureTrades)].amount # 0
                      THEN closureTrades[Len(closureTrades)].amount ELSE 1
    IN  [strategy |-> strategy.name, type |-> type, price |-> price,
         amount |-> IF type = "buy" THEN strategy.maxPosition \div price ELSE lastAmount,
         value |-> IF type = "buy" THEN strategy.maxPosition ELSE price * lastAmount,
         status |-> "executed"]

\* checkStrategyConditions: the evaluations made and the trade executed (at most one,
\* since `trades` is the array the closure captured and does not change between the
\* two tests; the code after each await finds nothing more to do)
checkStrategyConditions(strategy, price, history, closureTrades) ==
    IF Len(history) < MinHistory
    THEN [evals |-> <<>>, order |-> "none"]
    ELSE LET entryMet == checkCondition(strategy.entry, price, history)
             open == Len(closureTrades) > 0 /\ closureTrades[Len(closureTrades)].type = "buy"
             exitMet == open /\ checkCondition(strategy.exit, price, history)
             \* what this evaluation was handed: the tick's price, and the length and
             \* the last sample of the history
             e(phase) == [phase |-> phase, price |-> price, length |-> Len(history),
                          last |-> history[Len(history)]]
         IN  [evals |-> IF open THEN <<e("entry"), e("exit")>> ELSE <<e("entry")>>,
              order |-> IF entryMet /\ Len(closureTrades) = 0 THEN "buy"
                        ELSE IF exitMet THEN "sell" ELSE "none"]

\* One updater run: w is the state it reads and writes, u the queued updater
applyUpdater(w, u) ==
    LET newHistory == dashNewHistory(w.dashHistory, u.price)
        executorHistory == updatePriceHistoryMap(w.priceHistory, u.strategy.asset, u.price)
        r == checkStrategyConditions(u.strategy, u.price,
                                     evaluatedHistory(w.dashHistory, newHistory), u.closureTrades)
        trade == buildTrade(u.strategy, r.order, u.price, u.closureTrades)
        traded == r.order # "none"
        ledgers == IF traded THEN recordTradeMap(w.trades, trade) ELSE w.trades
    IN  [dashHistory |-> newHistory,
         priceHistory |-> executorHistory,
         supplied |-> [w.supplied EXCEPT ![u.strategy.asset] = Append(@, u.price)],
         tradesState |-> IF traded THEN Append(w.tradesState, trade) ELSE w.tradesState,
         trades |-> ledgers,
         recorded |-> IF traded THEN [w.recorded EXCEPT ![trade.strategy] = Append(@, trade)]
                      ELSE w.recorded,
         perf |-> IF traded THEN calculatePerformance(ledgers, u.strategy.name) ELSE w.perf,
         evalLog |-> w.evalLog \o r.evals]

RECURSIVE applyUpdaters(_, _)
applyUpdaters(w, queue) ==
    IF queue = <<>> THEN w ELSE applyUpdaters(applyUpdater(w, Head(queue)), Tail(queue))

----------------------------------------------------------------------------
(* Poll loops *)

\* One subscribeToPrice call: the loop, its `active` flag and its callback. The
\* dashboard's callback queues an updater; a callback of any other client of
\* PriceMonitor is arbitrary code that returns or raises.
NewLoop(symbol, owner, strategy, closureTrades) ==
    [symbol |-> symbol, active |-> TRUE, pc |-> "getPrice", owner |-> owner,
     strategy |-> strategy, closureTrades |-> closureTrades]

\* A slot of `subs` that holds no loop: never used, or its loop has returned
Free == [pc |-> "done"]
NoLoops == [i \in 1..MaxSubs |-> Free]

Ids == {i \in 1..MaxSubs : subs[i] # Free}
FreeIds == {i \in 1..MaxSubs : subs[i] = Free}
NextId == CHOOSE i \in FreeIds : \A j \in FreeIds : i <= j

\* (mutant) an unsubscribe function that forgets to clear the flag
unsubscribedNot(loops, ids) == loops

\* the unsubscribe function: active = false
unsubscribed(loops, ids) ==
    [i \in DOMAIN loops |-> IF i \in ids THEN [loops[i] EXCEPT !.active = FALSE] ELSE loops[i]]

\* PriceMonitor.stopMonitoring: the loops it deactivates and the map afterwards
stopMonitoringIds(m, symbol) == IF MapHas(m, symbol) THEN {m[symbol]} ELSE {}
stopMonitoringMap(m, symbol) == [k \in (DOMAIN m) \ {symbol} |-> m[k]]

\* PriceMonitor.stopAll: every stored unsubscribe function is called
stopAllIds(m) == {m[k] : k \in DOMAIN m}

\* (mutant) a loop that tests `active` only after the next fetch (do ... while)
afterSleepNoTest(loop) == [loop EXCEPT !.pc = "getPrice"]

\* while (active): where the loop goes when the timer has fired
afterSleep(loop) == IF loop.active THEN [loop EXCEPT !.pc = "getPrice"] ELSE Free

\* (mutant) a loop without the try/catch: a raising tick ends it
afterTickUncaught(loop, raised) == IF raised THEN Free ELSE [loop EXCEPT !.pc = "sleep"]

\* try { ... } catch { console.error } ; await setTimeout
afterTick(loop, raised) == [loop EXCEPT !.pc = "sleep"]

----------------------------------------------------------------------------
(* Actions of the monitoring model *)

\* PriceMonitor.startMonitoring up to "await subscribeToPrice": stopMonitoring(symbol),
\* then subscribeToPrice creates the loop and runs poll() up to its first await
\* (getPrice has been called and its settlement is awaited)
startMonitoring(symbol, owner, strategy, closureTrades) ==
    /\ FreeIds # {}
    /\ subs' = [unsubscribed(subs, stopMonitoringIds(subscriptions, symbol))
                    EXCEPT ![NextId] = NewLoop(symbol, owner, strategy, closureTrades)]
    /\ subscriptions' = stopMonitoringMap(subscriptions, symbol)
    /\ starting' = starting \cup {NextId}

\* Promise continuations (microtasks) run before the next task: no event handler,
\* timer, fetch response or render runs while a startMonitoring call is suspended
\* at its await, or while a poll loop awaits a getPrice that has already thrown
MicrotasksDrained ==
    /\ starting = {}
    /\ \A i \in Ids : subs[i].pc = "getPrice" => hasFeed(subs[i].symbol)

\* handleParseStrategy
HandleParseStrategy(strategy) ==
    /\ MicrotasksDrained
    /\ parsedStrategy # strategy
    /\ parsedStrategy' = strategy
    /\ UNCHANGED coreVars
    /\ UNCHANGED <<priceCache, lastFetched, subscriptions, subs, starting, activeStrategy, isMonitoring,
                   currentPrice, dashHistory, tradesState, pendingUpdates, evalLog,
                   lastTick, tickCount>>

\* handleActivateStrategy up to "await priceMonitor.startMonitoring"
\* (the Activate button is rendered only while isMonitoring is false)
HandleActivateStrategy ==
    /\ MicrotasksDrained
    /\ ~isMonitoring
    /\ parsedStrategy # NoStrategy
    /\ activeStrategy' = parsedStrategy.name
    /\ isMonitoring' = TRUE
    /\ startMonitoring(parsedStrategy.asset, "dashboard", parsedStrategy, tradesState)
    /\ UNCHANGED coreVars
    /\ UNCHANGED <<priceCache, lastFetched, parsedStrategy, currentPrice, dashHistory, tradesState,
                   pendingUpdates, evalLog, lastTick, tickCount>>

\* PriceMonitor.startMonitoring called by any other client
StartMonitoring(symbol) ==
    /\ startMonitoring(symbol, "client", NoStrategy, <<>>)
    /\ UNCHANGED coreVars
    /\ UNCHANGED <<priceCache, lastFetched, parsedStrategy, activeStrategy, isMonitoring, currentPrice,
                   dashHistory, tradesState, pendingUpdates, evalLog, lastTick, tickCount>>

\* startMonitoring after its await: this.subscriptions.set(symbol, unsubscribe)
StartMonitoringResume(id) ==
    /\ id \in starting
    /\ subscriptions' = MapSet(subscriptions, subs[id].symbol, id)
    /\ starting' = starting \ {id}
    /\ UNCHANGED coreVars
    /\ UNCHANGED <<priceCache, lastFetched, subs, parsedStrategy, activeStrategy, isMonitoring, currentPrice,
                   dashHistory, tradesState, pendingUpdates, evalLog, lastTick, tickCount>>

\* handleStopStrategy: priceMonitor.stopAll()
\* (the Stop button is rendered only while isMonitoring is true)
HandleStopStrategy ==
    /\ MicrotasksDrained
    /\ isMonitoring
    /\ isMonitoring' = FALSE
    /\ activeStrategy' = NoStrategy.name
    /\ subs' = unsubscribed(subs, stopAllIds(subscriptions))
    /\ subscriptions' = EmptyMap
    /\ UNCHANGED coreVars
    /\ UNCHANGED <<priceCache, lastFetched, starting, parsedStrategy, currentPrice, dashHistory, tradesState,
                   pendingUpdates, evalLog, lastTick, tickCount>>

\* PriceMonitor.stopAll called by any other client
StopAll ==
    /\ subscriptions # EmptyMap
    /\ subs' = unsubscribed(subs, stopAllIds(subscriptions))
    /\ subscriptions' = EmptyMap
    /\ UNCHANGED coreVars
    /\ UNCHANGED <<priceCache, lastFetched, starting, parsedStrategy, activeStrategy, isMonitoring,
                   currentPrice, dashHistory, tradesState, pendingUpdates, evalLog,
                   lastTick, tickCount>>

\* PriceMonitor.stopMonitoring(symbol)
StopMonitoring(symbol) ==
    /\ MapHas(subscriptions, symbol)
    /\ subs' = unsubscribed(subs, stopMonitoringIds(subscriptions, symbol))
    /\ subscriptions' = stopMonitoringMap(subscriptions, symbol)
    /\ UNCHANGED coreVars
    /\ UNCHANGED <<priceCache, lastFetched, starting, parsedStrategy, activeStrategy, isMonitoring,
                   currentPrice, dashHistory, tradesState, pendingUpdates, evalLog,
                   lastTick, tickCount>>

\* One tick of poll(): the awaited getPrice settles (returns or throws), the callback
\* runs (and, for a client's callback, may raise), and the loop goes to its timer.
\* The dashboard's callback sets currentPrice and queues the setPriceHistory updater.
Tick(id, outcome, fetched, sim, callbackRaises) ==
    /\ id \in Ids
    /\ subs[id].pc = "getPrice"
    /\ subs[id].owner = "dashboard" /\ hasFeed(subs[id].symbol) => tickCount < MaxTicks
    /\ callbackRaises => subs[id].owner = "client"
    /\ LET loop == subs[id]
           r == getPrice(priceCache, loop.symbol, outcome, fetched, sim)
           raised == r.raised \/ callbackRaises
       IN  /\ priceCache' = r.cache
           /\ lastFetched' = fetchedAfter(lastFetched, loop.symbol, outcome, fetched)
           /\ lastTick' = IF loop.owner = "client"
                           THEN [active |-> loop.active,
                                 getPrice |-> IF r.raised THEN "raised" ELSE "returned",
                                 callback |-> IF r.raised THEN "not called"
                                              ELSE IF callbackRaises THEN "raised"
                                              ELSE "returned"]
                           ELSE lastTick
           /\ subs' = [subs EXCEPT ![id] = afterTick(loop, raised)]
           /\ IF r.raised \/ loop.owner = "client"
              THEN UNCHANGED <<currentPrice, pendingUpdates>>
              ELSE /\ currentPrice' = r.price
                   /\ pendingUpdates' = Append(pendingUpdates,
                                               [price |-> r.price, strategy |-> loop.strategy,
                                                closureTrades |-> loop.closureTrades])
    /\ tickCount' = IF subs[id].owner = "dashboard" /\ hasFeed(subs[id].symbol)
                    THEN tickCount + 1 ELSE tickCount
    /\ UNCHANGED coreVars
    /\ UNCHANGED <<subscriptions, starting, parsedStrategy, activeStrategy, isMonitoring,
                   dashHistory, tradesState, evalLog>>

\* The tick runs when the fetch has answered, which is a task of its own; a getPrice
\* that has thrown is handled at once
GetPriceSettles(id, outcome, fetched, sim, callbackRaises) ==
    /\ id \in Ids
    /\ hasFeed(subs[id].symbol) => MicrotasksDrained
    /\ Tick(id, outcome, fetched, sim, callbackRaises)

\* The while test when the timer of poll() has expired: the next getPrice call, or
\* the end of the loop
WhileTest(id) ==
    /\ id \in Ids
    /\ subs[id].pc = "sleep"
    /\ subs' = [subs EXCEPT ![id] = afterSleep(subs[id])]
    /\ UNCHANGED coreVars
    /\ UNCHANGED <<priceCache, lastFetched, subscriptions, starting, parsedStrategy, activeStrategy,
                   isMonitoring, currentPrice, dashHistory, tradesState, pendingUpdates,
                   evalLog, lastTick, tickCount>>

\* The timer of poll() fires: a task of its own
TimerFires(id) == MicrotasksDrained /\ WhileTest(id)

\* React runs the queued setPriceHistory updaters, in order, in one go
RunUpdaters ==
    /\ MicrotasksDrained
    /\ pendingUpdates # <<>>
    /\ LET w == applyUpdaters([dashHistory |-> dashHistory, priceHistory |-> priceHistory,
                               supplied |-> supplied, tradesState |-> tradesState,
                               trades |-> trades, recorded |-> recorded, perf |-> perf,
                               evalLog |-> <<>>],
                              pendingUpdates)
       IN  /\ dashHistory' = w.dashHistory
           /\ priceHistory' = w.priceHistory
           /\ supplied' = w.supplied
           /\ tradesState' = w.tradesState
           /\ trades' = w.trades
           /\ recorded' = w.recorded
           /\ perf' = w.perf
           /\ evalLog' = w.evalLog
    /\ pendingUpdates' = <<>>
    /\ UNCHANGED <<op, opCount, priceCache, lastFetched, subscriptions, subs, starting, parsedStrategy,
                   activeStrategy, isMonitoring, currentPrice, lastTick, tickCount>>

\* A dashboard that has been monitoring ETH/USD for 99 ticks and was stopped
WarmDash == [i \in 1..(DashCap - 1) |-> 3420]

MonitorInit ==
    /\ trades = EmptyMap
    /\ perf = NoPerf
    /\ op = NoOp
    /\ recorded = [s \in Strategies |-> <<>>]
    /\ opCount = 0
    /\ subscriptions = EmptyMap
    /\ subs = NoLoops
    /\ starting = {}
    /\ parsedStrategy = NoStrategy
    /\ activeStrategy = NoStrategy.name
    /\ isMonitoring = FALSE
    /\ tradesState = <<>>
    /\ pendingUpdates = <<>>
    /\ evalLog = <<>>
    /\ lastTick = NoTick
    /\ tickCount = 0
    /\ \/ /\ priceHistory = EmptyMap
          /\ supplied = [a \in Assets |-> <<>>]
          /\ dashHistory = <<>>
          /\ priceCache = EmptyMap
          /\ lastFetched = EmptyMap
          /\ currentPrice = 0
       \/ /\ priceHistory = [a \in {"ETH/USD"} |-> WarmDash]
          /\ supplied = [a \in Assets |-> IF a = "ETH/USD" THEN WarmDash ELSE <<>>]
          /\ dashHistory = WarmDash
          /\ priceCache = [a \in {"ETH/USD"} |-> 3420]
          /\ lastFetched = [a \in {"ETH/USD"} |-> 3420]
          /\ currentPrice = 3420

HandleParseStrategyStep == \E st \in ParsedStrategies : HandleParseStrategy(st)
StartMonitoringStep == \E symbol \in Assets : StartMonitoring(symbol)
StartMonitoringResumeStep == \E id \in starting : StartMonitoringResume(id)
StopMonitoringStep == \E symbol \in Assets : StopMonitoring(symbol)
\* The inputs of one tick: the payload is read only when the fetch succeeded, the
\* simulated price is drawn only when it failed and nothing is cached
FetchedPrices(outcome) == IF outcome = "ok" THEN FeedPrices ELSE {0}
DrawnPrices(symbol, outcome) ==
    IF outcome = "ok" \/ MapHas(priceCache, symbol) THEN {0} ELSE SimPrices(symbol)
GetPriceSettlesOf(id) ==
    \E outcome \in FetchOutcomes, callbackRaises \in BOOLEAN :
        \E fetched \in FetchedPrices(outcome), sim \in DrawnPrices(subs[id].symbol, outcome) :
            GetPriceSettles(id, outcome, fetched, sim, callbackRaises)
TickOf(id) ==
    \E outcome \in FetchOutcomes, callbackRaises \in BOOLEAN :
        \E fetched \in FetchedPrices(outcome), sim \in DrawnPrices(subs[id].symbol, outcome) :
            Tick(id, outcome, fetched, sim, callbackRaises)
GetPriceSettlesStep == \E id \in Ids : GetPriceSettlesOf(id)
TimerFiresStep == \E id \in Ids : TimerFires(id)

\* The dashboard page
MonitorNext ==
    \/ HandleParseStrategyStep
    \/ HandleActivateStrategy
    \/ StartMonitoringResumeStep
    \/ HandleStopStrategy
    \/ GetPriceSettlesStep
    \/ TimerFiresStep
    \/ RunUpdaters

MonitorSpec == MonitorInit /\ [][MonitorNext]_vars

\* A dashboard that has been monitoring ETH/USD for 99 ticks at 3610, above both feed
\* prices, and was stopped without a trade: the market falls from here
FallingDash == [i \in 1..(DashCap - 1) |-> 3610]

TradingInit ==
    /\ trades = EmptyMap
    /\ perf = NoPerf
    /\ op = NoOp
    /\ recorded = [s \in Strategies |-> <<>>]
    /\ opCount = 0
    /\ subscriptions = EmptyMap
    /\ subs = NoLoops
    /\ starting = {}
    /\ parsedStrategy = NoStrategy
    /\ activeStrategy = NoStrategy.name
    /\ isMonitoring = FALSE
    /\ tradesState = <<>>
    /\ pendingUpdates = <<>>
    /\ evalLog = <<>>
    /\ lastTick = NoTick
    /\ tickCount = 0
    /\ priceHistory = [a \in {"ETH/USD"} |-> FallingDash]
    /\ supplied = [a \in Assets |-> IF a = "ETH/USD" THEN FallingDash ELSE <<>>]
    /\ dashHistory = FallingDash
    /\ priceCache = [a \in {"ETH/USD"} |-> 3610]
    /\ lastFetched = [a \in {"ETH/USD"} |-> 3610]
    /\ currentPrice = 3610

\* The dashboard page in a falling market
TradingSpec == TradingInit /\ [][MonitorNext]_vars

\* PythClient and PriceMonitor driven by any client
PollNext ==
    \/ StartMonitoringStep
    \/ StartMonitoringResumeStep
    \/ StopMonitoringStep
    \/ StopAll
    \/ GetPriceSettlesStep
    \/ TimerFiresStep

PollInit ==
    /\ MonitorIdle
    /\ subs = NoLoops
    /\ trades = EmptyMap
    /\ perf = NoPerf
    /\ op = NoOp
    /\ recorded = [s \in Strategies |-> <<>>]
    /\ opCount = 0
    /\ priceHistory = EmptyMap
    /\ supplied = [a \in Assets |-> <<>>]

PollSpec == PollInit /\ [][PollNext]_vars

\* The event loop: a suspended startMonitoring resumes when the call stack is empty;
\* a fetch that stays pending is eventually answered and its tick run; a timer that
\* stays pending eventually fires
PollFairness ==
    /\ WF_vars(StartMonitoringResumeStep)
    /\ \A id \in 1..MaxSubs : WF_vars(id \in Ids /\ TickOf(id))
    /\ \A id \in 1..MaxSubs : WF_vars(WhileTest(id))

FairPollSpec == PollSpec /\ PollFairness

\* The dashboard page with its event loop running: a suspended startMonitoring
\* resumes, an awaited fetch settles, a timer fires, React renders
MonitorFairness ==
    /\ WF_vars(StartMonitoringResumeStep)
    /\ \A id \in 1..MaxSubs : WF_vars(id \in Ids /\ GetPriceSettlesOf(id))
    /\ \A id \in 1..MaxSubs : WF_vars(TimerFires(id))
    /\ WF_vars(RunUpdaters)

FairMonitorSpec == MonitorSpec /\ MonitorFairness

----------------------------------------------------------------------------
(* PythClient.getPrice called directly, any number of times *)

\* One getPrice call, from the call to the settlement of the promise it returns. The
\* call touches the cache only in the code that runs, without a further await, after
\* its last await (the cache write after response.json(), the cache read in the catch
\* block), so overlapping calls take effect one after the other, in the order in
\* which they settle.
GetPrice(symbol, outcome, fetched, sim) ==
    /\ LET r == getPrice(priceCache, symbol, outcome, fetched, sim)
       IN  /\ priceCache' = r.cache
           /\ op' = [kind |-> "getPrice", symbol |-> symbol, outcome |-> outcome,
                     raised |-> r.raised, price |-> r.price]
    /\ lastFetched' = fetchedAfter(lastFetched, symbol, outcome, fetched)
    /\ UNCHANGED <<trades, priceHistory, perf, recorded, supplied, opCount>>
    /\ UNCHANGED <<subscriptions, subs, starting, parsedStrategy, activeStrategy, isMonitoring,
                   currentPrice, dashHistory, tradesState, pendingUpdates, evalLog,
                   lastTick, tickCount>>

CallSymbols == {"ETH/USD", "BTC/USD", "USDC/USD", "SOL/USDC"}

GetPriceStep ==
    \E symbol \in CallSymbols, outcome \in FetchOutcomes :
        \E fetched \in FetchedPrices(outcome), sim \in DrawnPrices(symbol, outcome) :
            GetPrice(symbol, outcome, fetched, sim)

PythInit == PollInit
PythNext == GetPriceStep
PythSpec == PythInit /\ [][PythNext]_vars

----------------------------------------------------------------------------
(* The stateless operations: each is called once, with any of its inputs, and `op`
   records the call and what it returned *)

OnlyOpChanges == UNCHANGED <<trades, priceHistory, perf, recorded, supplied, opCount, monitorVars>>
NoCallYet == op = NoOp

----------------------------------------------------------------------------
(* JupiterClient, TradingExecutor *)

SwapOutcomes == {"ok", "networkError", "notOk", "badTransaction"}
QuoteOutcomes == {"ok", "networkError", "notOk"}
BuyAmounts == {30, 500}

NoSignature == "none"
\* generateSimulatedSignature: 88 random characters
SimulatedSignature == "simulated signature"

\* getQuote: the quote of the provider, or the simulated quote of the catch block
\* (of a quote only the input amount and where it comes from are kept)
getQuote(amount, outcome) ==
    IF outcome = "ok"
    THEN [inAmount |-> amount, source |-> "jupiter"]
    ELSE [inAmount |-> amount, source |-> "simulated"]

\* executeSwap: the SwapResult it returns
executeSwap(quote, outcome) ==
    IF outcome = "ok"
    THEN [txSignature |-> SimulatedSignature, inputAmount |-> quote.inAmount]
    ELSE \* catch: "Return simulated result for demo"
         [txSignature |-> SimulatedSignature, inputAmount |-> quote.inAmount]

\* TradingExecutor.buy: USDC has 6 decimals
buy(amountUSD, quoteOutcome, swapOutcome) ==
    executeSwap(getQuote(amountUSD * 1000000, quoteOutcome), swapOutcome)

Buy(amountUSD, quoteOutcome, swapOutcome) ==
    /\ NoCallYet
    /\ op' = [kind |-> "buy", amountUSD |-> amountUSD, quoteOutcome |-> quoteOutcome,
              swapOutcome |-> swapOutcome, result |-> buy(amountUSD, quoteOutcome, swapOutcome)]
    /\ OnlyOpChanges

BuyStep ==
    \E amountUSD \in BuyAmounts, quoteOutcome \in QuoteOutcomes, swapOutcome \in SwapOutcomes :
        Buy(amountUSD, quoteOutcome, swapOutcome)

\* calls of checkCondition with a price condition: the current price is an argument
\* of its own, next to the history
CheckedConditions == {PriceCondition("<", 5), PriceCondition(">", 5), PriceCondition("<", 10)}
CheckedPrices == {88, 94, 100, 106}
CheckedHistories == {<<100, 94>>, <<100, 100>>, <<94, 100>>, <<100, 106>>, <<88, 100, 94>>}

CheckCondition(condition, price, history) ==
    /\ NoCallYet
    /\ op' = [kind |-> "checkCondition", condition |-> condition,
              price |-> price, history |-> history,
              result |-> checkCondition(condition, price, history)]
    /\ OnlyOpChanges

\* calls with an RSI condition: 14 samples, 15 rising or falling, and 16 and 17 that
\* turn at the end
RsiConditions ==
    { IndicatorCondition("RSI", c, v, "15m") :
        c \in {"<", ">", "crosses_above", "crosses_below"}, v \in {30, 50, 70} }

Rising == [i \in 1..15 |-> 100 + i]
Falling == [i \in 1..15 |-> 130 - i]
RsiHistories ==
    { SubSeq(Rising, 1, 14), Rising, Falling,
      Append(Falling, 144), Append(Rising, 86),
      Append(Append(Falling, 144), 143), Append(Append(Rising, 86), 87),
      Append(Rising, 112), Append(Falling, 118) }

CheckConditionStep ==
    \/ \E condition \in CheckedConditions, price \in CheckedPrices,
          history \in CheckedHistories :
           CheckCondition(condition, price, history)
    \/ \E condition \in RsiConditions, history \in RsiHistories :
           CheckCondition(condition, history[Len(history)], history)

----------------------------------------------------------------------------
(* Calls of IndicatorCalculator *)

CalculateRSI(prices, period) ==
    /\ NoCallYet
    /\ op' = [kind |-> "calculateRSI", prices |-> prices, period |-> period,
              result |-> calculateRSI(prices, period)]
    /\ OnlyOpChanges

CalculateRSIStep ==
    \E prices \in SampleLists, period \in 0..MaxPeriod : CalculateRSI(prices, period)

----------------------------------------------------------------------------
(* IndicatorCalculator.calculateSMA, calculateEMA.  Their results are not rounded to
   hundredths, so the rounding of every floating-point operation shows in them.  A
   number is a binary floating-point value of MantissaBits significant bits (a
   double has 53), held as an exact fraction; every operation rounds its exact result
   to the nearest such value, ties to even. *)

MantissaBits == 4

RECURSIVE Pow2(_)
Pow2(k) == IF k = 0 THEN 1 ELSE 2 * Pow2(k - 1)

\* the nearest whole number to n / d, ties to even
nearestEven(n, d) ==
    LET q == n \div d
        r == n % d
    IN  IF 2 * r > d \/ (2 * r = d /\ q % 2 = 1) THEN q + 1 ELSE q

\* n / d > 0 rounded to MantissaBits significant bits
RECURSIVE roundPositive(_, _)
roundPositive(n, d) ==
    IF n < d * Pow2(MantissaBits - 1)
    THEN LET r == roundPositive(2 * n, d) IN Rat(r[1], 2 * r[2])
    ELSE IF n >= d * Pow2(MantissaBits)
    THEN LET r == roundPositive(n, 2 * d) IN Rat(2 * r[1], r[2])
    ELSE Rat(nearestEven(n, d), 1)

\* the floating-point value of the exact result x
fl(x) ==
    IF x[1] = 0 THEN RatZero
    ELSE IF x[1] > 0 THEN roundPositive(x[1], x[2])
    ELSE LET r == roundPositive(0 - x[1], x[2]) IN Rat(0 - r[1], r[2])

\* a + b, a - b, a * b, a / b (b > 0) on numbers
fadd(a, b) == fl(Rat(a[1] * b[2] + b[1] * a[2], a[2] * b[2]))
fsub(a, b) == fl(Rat(a[1] * b[2] - b[1] * a[2], a[2] * b[2]))
fmul(a, b) == fl(Rat(a[1] * b[1], a[2] * b[2]))
fdiv(a, b) == fl(Rat(a[1] * b[2], a[2] * b[1]))

\* recentPrices.reduce((a, b) => a + b, 0)
RECURSIVE reduceSum(_, _)
reduceSum(recentPrices, a) ==
    IF recentPrices = <<>> THEN a
    ELSE reduceSum(Tail(recentPrices), fadd(a, Rat(Head(recentPrices), 1)))

\* (mutant) an average without the branch for fewer than period samples
calculateSMANoFallback(prices, period) ==
    fdiv(reduceSum(prices, RatZero), Rat(period, 1))

\* calculateSMA, for non-empty prices and a whole period >= 1
calculateSMA(prices, period) ==
    IF Len(prices) < period THEN Rat(prices[Len(prices)], 1)
    ELSE LET recentPrices == SubSeq(prices, Len(prices) - period + 1, Len(prices))
         IN  fdiv(reduceSum(recentPrices, RatZero), Rat(period, 1))

\* the loop of calculateEMA from index i (the code's i + 1) on
RECURSIVE emaLoop(_, _, _, _)
emaLoop(prices, i, multiplier, ema) ==
    IF i > Len(prices) THEN ema
    ELSE emaLoop(prices, i + 1, multiplier,
                 fadd(fmul(fsub(Rat(prices[i], 1), ema), multiplier), ema))

\* calculateEMA, for non-empty prices and a whole period >= 1
calculateEMA(prices, period) ==
    IF Len(prices) < period THEN Rat(prices[Len(prices)], 1)
    ELSE LET multiplier == fdiv(Rat(2, 1), fadd(Rat(period, 1), Rat(1, 1)))
             ema == calculateSMA(SubSeq(prices, 1, period), period)
         IN  emaLoop(prices, period + 1, multiplier, ema)

\* the calls the averages are documented for: at least one price, a period >= 1
AveragedLists == SampleLists \ {<<>>}
AveragedPeriods == 1..MaxPeriod

CalculateSMA(prices, period) ==
    /\ NoCallYet
    /\ op' = [kind |-> "calculateSMA", prices |-> prices, period |-> period,
              result |-> calculateSMA(prices, period)]
    /\ OnlyOpChanges

CalculateSMAStep ==
    \E prices \in AveragedLists, period \in AveragedPeriods : CalculateSMA(prices, period)

CalculateEMA(prices, period) ==
    /\ NoCallYet
    /\ op' = [kind |-> "calculateEMA", prices |-> prices, period |-> period,
              result |-> calculateEMA(prices, period)]
    /\ OnlyOpChanges

CalculateEMAStep ==
    \E prices \in AveragedLists, period \in AveragedPeriods : CalculateEMA(prices, period)

----------------------------------------------------------------------------
(* StrategyParser.  A text is the sequence of its characters.  The texts parsed here
   hold no '.', so the (?:\.\d{2})? of extractMaxPosition has nothing to match.
   stopLoss and takeProfit are a match, <<n>>, or undefined, <<>>. *)

UpperCase == <<"A", "B", "C", "D", "E", "F", "G", "H", "I", "J", "K", "L", "M", "N", "O", "P", "Q", "R", "S", "T", "U", "V", "W", "X", "Y", "Z">>
LowerCase == <<"a", "b", "c", "d", "e", "f", "g", "h", "i", "j", "k", "l", "m", "n", "o", "p", "q", "r", "s", "t", "u", "v", "w", "x", "y", "z">>
DigitChars == <<"0", "1", "2", "3", "4", "5", "6", "7", "8", "9">>

toLowerCase(text) ==
    [i \in 1..Len(text) |->
        IF \E k \in 1..Len(UpperCase) : UpperCase[k] = text[i]
        THEN LowerCase[CHOOSE k \in 1..Len(UpperCase) : UpperCase[k] = text[i]]
        ELSE text[i]]

\* the literal occurs in the text at index i
startsWith(text, i, literal) ==
    /\ i + Len(literal) - 1 <= Len(text)
    /\ \A k \in 1..Len(literal) : text[i + k - 1] = literal[k]

\* String.prototype.includes
includes(text, literal) == \E i \in 1..Len(text) : startsWith(text, i, literal)

IsDigit(c) == \E k \in 1..Len(DigitChars) : DigitChars[k] = c
IsSpace(c) == c = " "
DigitValue(c) == (CHOOSE k \in 1..Len(DigitChars) : DigitChars[k] = c) - 1

\* \s* from index i: the index behind the spaces
RECURSIVE skipSpaces(_, _)
skipSpaces(text, i) ==
    IF i <= Len(text) /\ IsSpace(text[i]) THEN skipSpaces(text, i + 1) ELSE i

\* \d* from index i: the index behind the digits
RECURSIVE digitsEnd(_, _)
digitsEnd(text, i) ==
    IF i <= Len(text) /\ IsDigit(text[i]) THEN digitsEnd(text, i + 1) ELSE i

\* parseInt of a sequence of digits
RECURSIVE parseInt(_)
parseInt(digits) ==
    IF digits = <<>> THEN 0
    ELSE 10 * parseInt(SubSeq(digits, 1, Len(digits) - 1)) + DigitValue(digits[Len(digits)])

\* a match is <<captured group>>, no match is <<>>
NoMatch == <<>>
Leftmost(hits) == CHOOSE i \in hits : \A j \in hits : i <= j

\* \s*(\d+) at index i
spacedNumberAt(text, i) ==
    LET k == skipSpaces(text, i)
    IN  IF digitsEnd(text, k) > k THEN <<SubSeq(text, k, digitsEnd(text, k) - 1)>> ELSE NoMatch

\* (?:w1|w2|...)\s*(\d+) at index i: the first alternative that lets the rest match
RECURSIVE alternativesAt(_, _, _)
alternativesAt(text, i, words) ==
    IF words = <<>> THEN NoMatch
    ELSE IF startsWith(text, i, Head(words))
            /\ spacedNumberAt(text, i + Len(Head(words))) # NoMatch
         THEN spacedNumberAt(text, i + Len(Head(words)))
         ELSE alternativesAt(text, i, Tail(words))

\* /rsi\s*(?:w1|w2|...)\s*(\d+)/ at index i
rsiPatternAt(text, i, words) ==
    IF startsWith(text, i, <<"r", "s", "i">>)
    THEN alternativesAt(text, skipSpaces(text, i + 3), words)
    ELSE NoMatch

\* input.match(/rsi\s*(?:w1|w2|...)\s*(\d+)/i)
matchRsi(text, words) ==
    LET hits == { i \in 1..Len(text) : rsiPatternAt(text, i, words) # NoMatch }
    IN  IF hits = {} THEN NoMatch ELSE rsiPatternAt(text, Leftmost(hits), words)

BelowWords == <<<<"b", "e", "l", "o", "w">>, <<"<">>, <<"l", "e", "s", "s", " ", "t", "h", "a", "n">>>>
AboveWords == <<<<"a", "b", "o", "v", "e">>, <<">">>, <<"g", "r", "e", "a", "t", "e", "r", " ", "t", "h", "a", "n">>>>
CrossWords == <<<<"c", "r", "o", "s", "s", "e", "s">>, <<"c", "r", "o", "s", "s">>>>

\* (\d+)% at index i, and what follows it
percentAt(text, i) ==
    /\ IsDigit(text[i])
    /\ digitsEnd(text, i) <= Len(text)
    /\ text[digitsEnd(text, i)] = "%"

\* input.match(/(\d+)%/)
matchPercent(text) ==
    LET hits == { i \in 1..Len(text) : percentAt(text, i) }
    IN  IF hits = {} THEN NoMatch
        ELSE <<SubSeq(text, Leftmost(hits), digitsEnd(text, Leftmost(hits)) - 1)>>

\* input.match(/(\d+)%\s*(?:of|risk)/i)
matchRiskPercent(text) ==
    LET follows(i) == LET k == skipSpaces(text, digitsEnd(text, i) + 1)
                      IN  startsWith(text, k, <<"o", "f">>)
                              \/ startsWith(text, k, <<"r", "i", "s", "k">>)
        hits == { i \in 1..Len(text) : percentAt(text, i) /\ follows(i) }
    IN  IF hits = {} THEN NoMatch
        ELSE <<SubSeq(text, Leftmost(hits), digitsEnd(text, Leftmost(hits)) - 1)>>

\* (?:,\d{3})* from index i: the index behind the groups
RECURSIVE groupsEnd(_, _)
groupsEnd(text, i) ==
    IF /\ i + 3 <= Len(text)
       /\ text[i] = ","
       /\ IsDigit(text[i + 1]) /\ IsDigit(text[i + 2]) /\ IsDigit(text[i + 3])
    THEN groupsEnd(text, i + 4)
    ELSE i

extractAsset(text) ==
    IF includes(text, <<"s", "o", "l">>) THEN "SOL/USDC"
    ELSE IF includes(text, <<"b", "t", "c">>) \/ includes(text, <<"b", "i", "t", "c", "o", "i", "n">>) THEN "BTC/USD"
    ELSE IF includes(text, <<"e", "t", "h">>) \/ includes(text, <<"e", "t", "h", "e", "r", "e", "u", "m">>) THEN "ETH/USD"
    ELSE "SOL/USDC"

\* the three patterns of extractCondition, joined by ||
rsiMatch(text) ==
    IF matchRsi(text, BelowWords) # NoMatch THEN matchRsi(text, BelowWords)
    ELSE IF matchRsi(text, AboveWords) # NoMatch THEN matchRsi(text, AboveWords)
    ELSE matchRsi(text, CrossWords)

\* (mutant) an extraction whose MACD condition depends on the phase
extractConditionPhased(text, phase) ==
    IF includes(text, <<"m", "a", "c", "d">>)
    THEN IndicatorCondition("MACD", IF phase = "entry" THEN "crosses_above" ELSE "crosses_below",
                            0, "1h")
    ELSE PriceCondition(IF phase = "entry" THEN "<" ELSE ">", 100)

extractCondition(text, phase) ==
    IF includes(text, <<"r", "s", "i">>) /\ rsiMatch(text) # NoMatch
    THEN IndicatorCondition("RSI",
             IF includes(text, <<"b", "e", "l", "o", "w">>) \/ includes(text, <<"<">>) THEN "<"
             ELSE IF includes(text, <<"a", "b", "o", "v", "e">>) \/ includes(text, <<">">>) THEN ">"
             ELSE IF includes(text, <<"c", "r", "o", "s", "s", "e", "s">>) THEN "crosses_above"
             ELSE ">",
             parseInt(rsiMatch(text)[1]), "15m")
    ELSE IF /\ \/ includes(text, <<"p", "r", "i", "c", "e">>)
               \/ includes(text, <<"d", "r", "o", "p", "s">>)
               \/ includes(text, <<"r", "i", "s", "e", "s">>)
            /\ matchPercent(text) # NoMatch
    THEN PriceCondition(IF includes(text, <<"d", "r", "o", "p">>) \/ includes(text, <<"b", "e", "l", "o", "w">>)
                        THEN "<" ELSE ">",
                        parseInt(matchPercent(text)[1]))
    ELSE IF includes(text, <<"m", "a", "c", "d">>)
    THEN IndicatorCondition("MACD", "crosses_above", 0, "1h")
    ELSE IF includes(text, <<"b", "o", "l", "l", "i", "n", "g", "e", "r">>) \/ includes(text, <<"b", "b">>)
    THEN IndicatorCondition("BB", IF includes(text, <<"u", "p", "p", "e", "r">>) THEN ">" ELSE "<",
                            IF includes(text, <<"u", "p", "p", "e", "r">>) THEN 2 ELSE -2, "1h")
    ELSE PriceCondition(IF phase = "entry" THEN "<" ELSE ">", 100)

\* (mutant) a position size without the default of 500
extractMaxPositionNoDefault(text) ==
    LET hits == { i \in 1..Len(text) : IsDigit(text[i]) }
        first == Leftmost(hits)
        group == SubSeq(text, first, groupsEnd(text, digitsEnd(text, first)) - 1)
    IN  IF hits = {} THEN 0
        ELSE parseInt(SelectSeq(group, LAMBDA c : c # ","))

\* /\$?\s*(\d+(?:,\d{3})*(?:\.\d{2})?)/: the match starts at or before the first digit
\* of the text, and the group is that run of digits with its ,ddd groups
extractMaxPosition(text) ==
    LET hits == { i \in 1..Len(text) : IsDigit(text[i]) }
        first == Leftmost(hits)
        group == SubSeq(text, first, groupsEnd(text, digitsEnd(text, first)) - 1)
    IN  IF hits = {} THEN 500
        ELSE parseInt(SelectSeq(group, LAMBDA c : c # ","))

extractRiskPercent(text) ==
    IF matchRiskPercent(text) # NoMatch THEN parseInt(matchRiskPercent(text)[1]) ELSE 10

\* \s*(?:at\s*)?(\d+)% at index i
atPercentAt(text, i) ==
    LET k == skipSpaces(text, i)
        n == IF startsWith(text, k, <<"a", "t">>) THEN skipSpaces(text, k + 2) ELSE k
    IN  IF n <= Len(text) /\ percentAt(text, n)
        THEN <<SubSeq(text, n, digitsEnd(text, n) - 1)>>
        ELSE NoMatch

\* /stop\s*loss\s*(?:at\s*)?(\d+)%/ at index i
stopLossAt(text, i) ==
    LET k == skipSpaces(text, i + 4)
    IN  IF startsWith(text, i, <<"s", "t", "o", "p">>) /\ startsWith(text, k, <<"l", "o", "s", "s">>)
        THEN atPercentAt(text, k + 4)
        ELSE NoMatch

\* /(?:take\s*profit|sell\s*when\s*up)\s*(?:at\s*)?(\d+)%/ at index i
takeProfitAt(text, i) ==
    LET k == skipSpaces(text, i + 4)
        u == skipSpaces(text, k + 4)
    IN  IF startsWith(text, i, <<"t", "a", "k", "e">>) /\ startsWith(text, k, <<"p", "r", "o", "f", "i", "t">>)
           /\ atPercentAt(text, k + 6) # NoMatch
        THEN atPercentAt(text, k + 6)
        ELSE IF startsWith(text, i, <<"s", "e", "l", "l">>) /\ startsWith(text, k, <<"w", "h", "e", "n">>)
                /\ startsWith(text, u, <<"u", "p">>)
        THEN atPercentAt(text, u + 2)
        ELSE NoMatch

\* match ? parseInt(match[1]) : undefined
extractStopLoss(text) ==
    LET hits == { i \in 1..Len(text) : stopLossAt(text, i) # NoMatch }
    IN  IF hits = {} THEN <<>> ELSE <<parseInt(stopLossAt(text, Leftmost(hits))[1])>>

extractTakeProfit(text) ==
    LET hits == { i \in 1..Len(text) : takeProfitAt(text, i) # NoMatch }
    IN  IF hits = {} THEN <<>> ELSE <<parseInt(takeProfitAt(text, Leftmost(hits))[1])>>

\* asset.split('/')[0]
assetSymbol(asset) ==
    CASE asset = "SOL/USDC" -> "SOL" [] asset = "BTC/USD" -> "BTC" [] asset = "ETH/USD" -> "ETH"

generateStrategyName(input) ==
    LET text == toLowerCase(input)
        symbol == assetSymbol(extractAsset(text))
    IN  IF includes(text, <<"r", "s", "i">>) THEN
            CASE symbol = "SOL" -> "SOL RSI Strategy" [] symbol = "BTC" -> "BTC RSI Strategy"
              [] symbol = "ETH" -> "ETH RSI Strategy"
        ELSE IF includes(text, <<"m", "a", "c", "d">>) THEN
            CASE symbol = "SOL" -> "SOL MACD Strategy" [] symbol = "BTC" -> "BTC MACD Strategy"
              [] symbol = "ETH" -> "ETH MACD Strategy"
        ELSE IF includes(text, <<"b", "o", "l", "l", "i", "n", "g", "e", "r">>) THEN
            CASE symbol = "SOL" -> "SOL BB Strategy" [] symbol = "BTC" -> "BTC BB Strategy"
              [] symbol = "ETH" -> "ETH BB Strategy"
        ELSE IF includes(text, <<"d", "c", "a">>) \/ includes(text, <<"d", "o", "l", "l", "a", "r", " ", "c", "o", "s", "t">>) THEN
            CASE symbol = "SOL" -> "SOL DCA Strategy" [] symbol = "BTC" -> "BTC DCA Strategy"
              [] symbol = "ETH" -> "ETH DCA Strategy"
        ELSE
            CASE symbol = "SOL" -> "SOL Custom Strategy" [] symbol = "BTC" -> "BTC Custom Strategy"
              [] symbol = "ETH" -> "ETH Custom Strategy"

parseStrategy(input) ==
    LET normalized == toLowerCase(input)
    IN  [name |-> generateStrategyName(input),
         asset |-> extractAsset(normalized),
         entry |-> extractCondition(normalized, "entry"),
         exit |-> extractCondition(normalized, "exit"),
         maxPosition |-> extractMaxPosition(normalized),
         riskPercent |-> extractRiskPercent(normalized),
         executionType |-> IF includes(normalized, <<"l", "i", "m", "i", "t">>) THEN "limit" ELSE "market",
         stopLoss |-> extractStopLoss(normalized),
         takeProfit |-> extractTakeProfit(normalized)]

\* the texts parsed: an opening, a condition and a close, and texts that name nothing
\* the parser looks for.  The README's examples, "Buy SOL when RSI drops below 30, sell
\* when it crosses 70, max position $500", "With $3,230 buy ETH when price drops 5%"
\* and "Buy SOL when RSI < 30, sell when RSI > 70, max $500", are among them.
Openings ==
    { <<"B", "u", "y", " ", "S", "O", "L", " ", "w", "h", "e", "n", " ">>,
      <<"B", "u", "y", " ", "B", "T", "C", " ", "w", "h", "e", "n", " ">>,
      <<"W", "i", "t", "h", " ", "$", "3", ",", "2", "3", "0", " ", "b", "u", "y", " ", "E", "T", "H", " ", "w", "h", "e", "n", " ">> }
Conditions ==
    { <<"R", "S", "I", " ", "d", "r", "o", "p", "s", " ", "b", "e", "l", "o", "w", " ", "3", "0">>,
      <<"R", "S", "I", " ", "b", "e", "l", "o", "w", " ", "3", "0">>,
      <<"R", "S", "I", " ", "c", "r", "o", "s", "s", "e", "s", " ", "7", "0">>,
      <<"p", "r", "i", "c", "e", " ", "d", "r", "o", "p", "s", " ", "5", "%">>,
      <<"M", "A", "C", "D", " ", "t", "u", "r", "n", "s", " ", "u", "p">>,
      <<"R", "S", "I", " ", "<", " ", "3", "0">>,
      <<"i", "t", " ", "t", "a", "g", "s", " ", "t", "h", "e", " ", "u", "p", "p", "e", "r", " ", "B", "o", "l", "l", "i", "n", "g", "e", "r", " ", "b", "a", "n", "d">>,
      <<"i", "t", " ", "l", "o", "o", "k", "s", " ", "c", "h", "e", "a", "p">> }
Closings ==
    { <<",", " ", "s", "e", "l", "l", " ", "w", "h", "e", "n", " ", "i", "t", " ", "c", "r", "o", "s", "s", "e", "s", " ", "7", "0", ",", " ", "m", "a", "x", " ", "p", "o", "s", "i", "t", "i", "o", "n", " ", "$", "5", "0", "0">>,
      <<",", " ", "r", "i", "s", "k", " ", "2", "%", " ", "o", "f", " ", "c", "a", "p", "i", "t", "a", "l">>,
      <<",", " ", "s", "e", "l", "l", " ", "w", "h", "e", "n", " ", "R", "S", "I", " ", ">", " ", "7", "0", ",", " ", "m", "a", "x", " ", "$", "5", "0", "0">>,
      <<",", " ", "s", "t", "o", "p", " ", "l", "o", "s", "s", " ", "a", "t", " ", "5", "%", ",", " ", "t", "a", "k", "e", " ", "p", "r", "o", "f", "i", "t", " ", "1", "2", "%", ",", " ", "l", "i", "m", "i", "t", " ", "o", "r", "d", "e", "r">>,
      <<>> }

PlainTexts == { <<>>, <<"H", "o", "l", "d">>, <<"w", "a", "i", "t", " ", "a", "n", "d", " ", "s", "e", "e">> }

StrategyTexts ==
    { o \o c \o e : o \in Openings, c \in Conditions, e \in Closings } \cup PlainTexts

ReadmeText ==
    <<"B", "u", "y", " ", "S", "O", "L", " ", "w", "h", "e", "n", " ">>
        \o <<"R", "S", "I", " ", "d", "r", "o", "p", "s", " ", "b", "e", "l", "o", "w", " ", "3", "0">>
        \o <<",", " ", "s", "e", "l", "l", " ", "w", "h", "e", "n", " ", "i", "t", " ", "c", "r", "o", "s", "s", "e", "s", " ", "7", "0", ",", " ", "m", "a", "x", " ", "p", "o", "s", "i", "t", "i", "o", "n", " ", "$", "5", "0", "0">>

SymbolsText ==
    <<"B", "u", "y", " ", "S", "O", "L", " ", "w", "h", "e", "n", " ">>
        \o <<"R", "S", "I", " ", "<", " ", "3", "0">>
        \o <<",", " ", "s", "e", "l", "l", " ", "w", "h", "e", "n", " ", "R", "S", "I", " ", ">", " ", "7", "0", ",", " ", "m", "a", "x", " ", "$", "5", "0", "0">>

DropText ==
    <<"W", "i", "t", "h", " ", "$", "3", ",", "2", "3", "0", " ", "b", "u", "y", " ", "E", "T", "H", " ", "w", "h", "e", "n", " ">>
        \o <<"p", "r", "i", "c", "e", " ", "d", "r", "o", "p", "s", " ", "5", "%">>

ParseStrategy(input) ==
    /\ NoCallYet
    /\ op' = [kind |-> "parseStrategy", input |-> input, result |-> parseStrategy(input)]
    /\ OnlyOpChanges

ParseStrategyStep == \E input \in StrategyTexts : ParseStrategy(input)

----------------------------------------------------------------------------
(* YieldAggregator, RebalancingEngine.
   Units: apy in tenths of a percent (47.5 % is 475), tvl in millions (285000000 is
   285), risk scores in tenths (50.5 is 505). *)

MaxPositions == 2    \* positions passed to analyzePositions

Yield(protocol, pool, apy, tvl, risk) ==
    [protocol |-> protocol, pool |-> pool, apy |-> apy, tvl |-> tvl, risk |-> risk]

\* getAllYields: [...jupiter, ...kamino, ...marinade, ...raydium]
getAllYields ==
    << Yield("Jupiter", "JLP Pool", 475, 285, "medium"),
       Yield("Jupiter", "SOL-USDC Swap Pool", 123, 145, "low"),
       Yield("Kamino", "SOL Multiply", 892, 78, "high"),
       Yield("Kamino", "USDC Lend", 187, 156, "low"),
       Yield("Kamino", "JitoSOL Multiply", 674, 45, "medium"),
       Yield("Marinade", "mSOL Stake Pool", 78, 1200, "low"),
       Yield("Raydium", "SOL-USDC", 234, 234, "medium"),
       Yield("Raydium", "RAY-SOL", 456, 89, "medium"),
       Yield("Raydium", "USDC-USDT", 52, 567, "low") >>

RiskLevels == {"low", "medium", "high"}
RiskTolerances == {"conservative", "balanced", "aggressive"}

\* riskMap
baseRisk(risk) == CASE risk = "low" -> 20 [] risk = "medium" -> 50 [] risk = "high" -> 80

\* (mutant) a risk score without the final Math.min
calculateRiskScoreUnclamped(y) ==
    LET tvlFactor == Max(0, 200 - y.tvl)
        apyFactor == IF y.apy > 1000 THEN 150 ELSE 0
    IN  baseRisk(y.risk) * 10 + tvlFactor + apyFactor

\* calculateRiskScore, in tenths:
\* tvlFactor = Math.max(0, 20 - tvl / 10000000), apyFactor = apy > 100 ? 15 : 0
calculateRiskScore(y) ==
    LET tvlFactor == Max(0, 200 - y.tvl)
        apyFactor == IF y.apy > 1000 THEN 150 ELSE 0
        score == baseRisk(y.risk) * 10 + tvlFactor + apyFactor
    IN  IF score > 1000 THEN 1000 ELSE score

\* calculateRiskAdjustedReturn: apy / (1 + riskScore / 100), in tenths of a percent
calculateRiskAdjustedReturn(y) == Rat(y.apy * 1000, 1000 + calculateRiskScore(y))

\* targetRisks
targetRisks(riskTolerance) ==
    CASE riskTolerance = "conservative" -> {"low"}
      [] riskTolerance = "balanced" -> {"low", "medium"}
      [] riskTolerance = "aggressive" -> {"low", "medium", "high"}

\* allYields.filter(y => targetRisks[riskTolerance].includes(y.risk))
eligibleYields(riskTolerance) ==
    SelectSeq(getAllYields, LAMBDA y : y.risk \in targetRisks(riskTolerance))

\* Array.prototype.sort is stable: y goes behind every element that does not rank
\* strictly below it
RECURSIVE insertRanked(_, _)
insertRanked(sorted, y) ==
    IF sorted = <<>> THEN <<y>>
    ELSE IF RatGt(calculateRiskAdjustedReturn(y), calculateRiskAdjustedReturn(Head(sorted)))
         THEN <<y>> \o sorted
         ELSE <<Head(sorted)>> \o insertRanked(Tail(sorted), y)

RECURSIVE sortRanked(_, _)
sortRanked(ys, sorted) ==
    IF ys = <<>> THEN sorted ELSE sortRanked(Tail(ys), insertRanked(sorted, Head(ys)))

\* eligibleYields.sort((a, b) => rar(b) - rar(a))
rankedYields(riskTolerance) == sortRanked(eligibleYields(riskTolerance), <<>>)

\* (mutant) a lookup that finds a current yield for every position
hasCurrentYieldAlways(position) == TRUE

\* allYields.find(y => y.protocol === position.protocol && y.pool === position.pool)
hasCurrentYield(position) ==
    \E i \in 1..Len(getAllYields) :
        getAllYields[i].protocol = position.protocol /\ getAllYields[i].pool = position.pool

\* (mutant) a test that accepts a target in the position's own protocol
isBetterAnyProtocol(targetYield, position) == targetYield.apy - position.apy > 50

\* apyDiff > 5 && targetYield.protocol !== position.protocol
isBetter(targetYield, position) ==
    targetYield.apy - position.apy > 50 /\ targetYield.protocol # position.protocol

\* (mutant) a search that keeps the last better yield of the ranked list
RECURSIVE firstBetterLast(_, _)
firstBetterLast(ranked, position) ==
    IF ranked = <<>> THEN <<>>
    ELSE IF isBetter(ranked[Len(ranked)], position)
         THEN <<ranked[Len(ranked)]>>
         ELSE firstBetterLast(SubSeq(ranked, 1, Len(ranked) - 1), position)

\* the inner loop: the first better yield of the ranked list, then break
RECURSIVE firstBetter(_, _)
firstBetter(ranked, position) ==
    IF ranked = <<>> THEN <<>>
    ELSE IF isBetter(Head(ranked), position) THEN <<Head(ranked)>>
         ELSE firstBetter(Tail(ranked), position)

\* the recommendation pushed for a position: amount = position.amount * 0.5,
\* expectedGain = position.value * apyDiff / 100
Recommendation(position, targetYield) ==
    [from |-> position, to |-> targetYield, amount |-> Rat(position.amount, 2),
     expectedGain |-> Rat(position.value * (targetYield.apy - position.apy), 1000)]

\* the outer loop of analyzePositions
RECURSIVE recommend(_, _)
recommend(positions, ranked) ==
    IF positions = <<>> THEN <<>>
    ELSE LET position == Head(positions)
             found == IF hasCurrentYield(position) THEN firstBetter(ranked, position) ELSE <<>>
             rest == recommend(Tail(positions), ranked)
         IN  IF found = <<>> THEN rest ELSE <<Recommendation(position, found[1])>> \o rest

analyzePositions(positions, riskTolerance) == recommend(positions, rankedYields(riskTolerance))

Position(protocol, pool, amount, value, apy) ==
    [protocol |-> protocol, pool |-> pool, amount |-> amount, value |-> value, apy |-> apy]

\* positions a caller holds: the dashboard's two, a position 5 points under a low
\* yield, one in the best pool, one in a pool of the same protocol as the best
\* ranked yields, and one in a pool no protocol lists
PositionShapes ==
    { Position("Marinade", "mSOL Stake Pool", 10, 1500, 78),
      Position("Raydium", "SOL-USDC", 5, 1200, 234),
      Position("Marinade", "mSOL Stake Pool", 10, 1500, 137),
      Position("Kamino", "SOL Multiply", 1, 300, 892),
      Position("Kamino", "USDC Lend", 4, 800, 187),
      Position("Orca", "Whirlpool", 3, 600, 50) }

PositionLists == UNION { [1..n -> PositionShapes] : n \in 0..MaxPositions }

AnalyzePositions(positions, riskTolerance) ==
    /\ NoCallYet
    /\ op' = [kind |-> "analyzePositions", positions |-> positions,
              riskTolerance |-> riskTolerance,
              result |-> analyzePositions(positions, riskTolerance)]
    /\ OnlyOpChanges

AnalyzePositionsStep ==
    \E positions \in PositionLists, riskTolerance \in RiskTolerances :
        AnalyzePositions(positions, riskTolerance)

\* yields calculateRiskScore is given: the listed ones, and pools of every risk
\* level around the thresholds tvl = 200 million and apy = 100 %
ScoredYields ==
    { getAllYields[i] : i \in 1..Len(getAllYields) }
        \cup { Yield("Kamino", "Pool", apy, tvl, risk) :
                 apy \in {78, 1000, 1001}, tvl \in {0, 50, 199, 200, 1200}, risk \in RiskLevels }

CalculateRiskScore(y) ==
    /\ NoCallYet
    /\ op' = [kind |-> "calculateRiskScore", yield |-> y, result |-> calculateRiskScore(y)]
    /\ OnlyOpChanges

CalculateRiskScoreStep == \E y \in ScoredYields : CalculateRiskScore(y)

\* strategies, in hundredths
strategies(riskTolerance) ==
    CASE riskTolerance = "conservative" -> [low |-> 80, medium |-> 15, high |-> 5]
      [] riskTolerance = "balanced" -> [low |-> 40, medium |-> 45, high |-> 15]
      [] riskTolerance = "aggressive" -> [low |-> 20, medium |-> 40, high |-> 40]

\* Object.entries(strategy)
strategyOrder == <<"low", "medium", "high">>

\* the stable sort (a, b) => b.apy - a.apy
RECURSIVE insertByApy(_, _)
insertByApy(sorted, y) ==
    IF sorted = <<>> THEN <<y>>
    ELSE IF y.apy > Head(sorted).apy THEN <<y>> \o sorted
         ELSE <<Head(sorted)>> \o insertByApy(Tail(sorted), y)

RECURSIVE sortByApy(_, _)
sortByApy(ys, sorted) ==
    IF ys = <<>> THEN sorted ELSE sortByApy(Tail(ys), insertByApy(sorted, Head(ys)))

\* (mutant) the first three of the bucket in listing order
riskYieldsUnsorted(risk) ==
    LET ys == SelectSeq(getAllYields, LAMBDA y : y.risk = risk)
    IN  SubSeq(ys, 1, IF Len(ys) < 3 THEN Len(ys) ELSE 3)

\* allYields.filter(y => y.risk === risk).sort(...).slice(0, 3)
riskYields(risk) ==
    LET ys == sortByApy(SelectSeq(getAllYields, LAMBDA y : y.risk = risk), <<>>)
    IN  SubSeq(ys, 1, IF Len(ys) < 3 THEN Len(ys) ELSE 3)

\* the number a weight literal denotes (0.80 is not a binary fraction)
weightNumber(weight) == fl(Rat(weight, 100))

\* (mutant) entries that each get the whole weight of their bucket
bucketAllocationUndivided(totalValue, risk, weight) ==
    LET ys == riskYields(risk)
    IN  [i \in 1..Len(ys) |->
            [yield |-> ys[i], allocation |-> fmul(Rat(totalValue, 1), weightNumber(weight))]]

\* the entries pushed for one bucket: perYield = weight / riskYields.length,
\* allocation = totalValue * perYield, in floating point
bucketAllocation(totalValue, risk, weight) ==
    LET ys == riskYields(risk)
        perYield == fdiv(weightNumber(weight), Rat(Len(ys), 1))
    IN  [i \in 1..Len(ys) |->
            [yield |-> ys[i], allocation |-> fmul(Rat(totalValue, 1), perYield)]]

generateOptimalAllocation(totalValue, riskTolerance) ==
    LET strategy == strategies(riskTolerance)
    IN  bucketAllocation(totalValue, strategyOrder[1], strategy[strategyOrder[1]])
            \o bucketAllocation(totalValue, strategyOrder[2], strategy[strategyOrder[2]])
            \o bucketAllocation(totalValue, strategyOrder[3], strategy[strategyOrder[3]])

\* portfolio values that are numbers of the reduced format
TotalValues == {0, 1, 7, 10, 12}

GenerateOptimalAllocation(totalValue, riskTolerance) ==
    /\ NoCallYet
    /\ op' = [kind |-> "generateOptimalAllocation", totalValue |-> totalValue,
              riskTolerance |-> riskTolerance,
              result |-> generateOptimalAllocation(totalValue, riskTolerance)]
    /\ OnlyOpChanges

GenerateOptimalAllocationStep ==
    \E totalValue \in TotalValues, riskTolerance \in RiskTolerances :
        GenerateOptimalAllocation(totalValue, riskTolerance)

----------------------------------------------------------------------------
(* The stateless operations together *)

LibInit == PollInit
LibNext ==
    \/ BuyStep
    \/ CheckConditionStep
    \/ CalculateRSIStep
    \/ CalculateSMAStep
    \/ CalculateEMAStep
    \/ ParseStrategyStep
    \/ AnalyzePositionsStep
    \/ CalculateRiskScoreStep
    \/ GenerateOptimalAllocationStep
LibSpec == LibInit /\ [][LibNext]_vars

----------------------------------------------------------------------------
(* Properties of PnLTracker and StrategyExecutor *)

Ledger(s) == MapGetOrEmpty(trades, s)
History(a) == getPriceHistory(priceHistory, a)
IsPrefix(s, t) == Len(s) <= Len(t) /\ SubSeq(t, 1, Len(s)) = s
LastN(s, n) == SubSeq(s, Len(s) - n + 1, Len(s))
Min(a, b) == IF a < b THEN a ELSE b

LedgerIsRecorded == \A s \in Strategies : Ledger(s) = recorded[s]

LedgerOnlyGrows ==
    \A s \in DOMAIN trades : s \in DOMAIN trades' /\ IsPrefix(trades[s], trades'[s])

\* C1: recordTrade is append-only. In every reachable state the ledger of each
\* strategy is exactly the sequence of trades recorded for it, in call order and
\* with duplicates kept; in every step each existing ledger stays a prefix of
\* itself (no trade moves or changes, no ledger shrinks or disappears).
C1_AppendOnly == [](LedgerIsRecorded) /\ [][LedgerOnlyGrows]_vars

C1_Witness ==
    \E s \in DOMAIN trades :
        /\ Len(trades[s]) >= 3
        /\ trades[s][1] = trades[s][2]
        /\ trades[s][3] # trades[s][1]

\* The pairs of the claims: index pairs (2k-1, 2k), 1-based, that are (buy, sell)
IsRealizedPair(ts, k) == ts[2 * k - 1].type = "buy" /\ ts[2 * k].type = "sell"
PairPnL(ts, k) == (ts[2 * k].price - ts[2 * k - 1].price) * ts[2 * k - 1].amount
RealizedPairs(ts) == {k \in 1..(Len(ts) \div 2) : IsRealizedPair(ts, k)}

RECURSIVE SumPairPnL(_, _)
SumPairPnL(ts, ks) ==
    IF ks = {} THEN 0
    ELSE LET k == CHOOSE x \in ks : TRUE
         IN  PairPnL(ts, k) + SumPairPnL(ts, ks \ {k})

PerfJustComputed == op.kind = "calculatePerformance"
PerfLedger == Ledger(op.strategyName)

ExampleLedger(s) == <<Trade(s, "buy", 100, 1), Trade(s, "sell", 110, 1)>>

\* C2: right after calculatePerformance, totalPnL is the sum of
\* (sell.price - buy.price) * buy.amount over exactly the index pairs that are
\* (buy, sell); other pairs and a trailing trade add nothing and nothing is
\* raised; the ledger [buy@100 x1, sell@110 x1] gives totalPnL 10, winRate 100.
C2_TotalPnLByParity ==
    PerfJustComputed =>
        /\ perf.totalPnL = SumPairPnL(PerfLedger, RealizedPairs(PerfLedger))
        /\ ~perf.raised
        /\ PerfLedger = ExampleLedger(op.strategyName) =>
                perf.totalPnL = 10 /\ RatEq(perf.winRate, Rat(100, 1))

C2_Witness ==
    /\ PerfJustComputed
    /\ Len(PerfLedger) = 4
    /\ ~IsRealizedPair(PerfLedger, 1)
    /\ IsRealizedPair(PerfLedger, 2)
    /\ PerfLedger[3].amount # PerfLedger[4].amount
    /\ perf.totalPnL = -10

WinningPairs(ts) == {k \in RealizedPairs(ts) : PairPnL(ts, k) > 0}

\* C3: with at least one realized pair, winRate = 100 * winning realized pairs /
\* realized pairs and averageTrade = totalPnL / realized pairs, also for ledgers
\* that do not alternate.
C3_RatesOverRealizedPairs ==
    (PerfJustComputed /\ RealizedPairs(PerfLedger) # {}) =>
        /\ RatEq(perf.winRate,
                 Rat(100 * Cardinality(WinningPairs(PerfLedger)),
                     Cardinality(RealizedPairs(PerfLedger))))
        /\ RatEq(perf.averageTrade,
                 Rat(perf.totalPnL, Cardinality(RealizedPairs(PerfLedger))))

AllZero(p) ==
    /\ p.totalTrades = 0
    /\ RatIsZero(p.winRate)
    /\ p.totalPnL = 0
    /\ RatIsZero(p.totalPnLPercent)
    /\ RatIsZero(p.averageTrade)
    /\ RatIsZero(p.maxDrawdown)
    /\ RatIsZero(p.sharpeRatio)

\* C4: calculatePerformance on a name with no recorded trades returns all
\* zeros, raises nothing, and neither creates nor changes a ledger.
C4_EmptyLedgerAllZero ==
    /\ []((PerfJustComputed /\ PerfLedger = <<>>) =>
            (AllZero(perf) /\ ~perf.raised /\ perf.strategyName = op.strategyName))
    /\ [][op'.kind = "calculatePerformance" => trades' = trades]_vars

C4_Witness ==
    /\ PerfJustComputed
    /\ ~MapHas(trades, op.strategyName)
    /\ trades # EmptyMap

\* C5: the stored history of each asset has at most 200 samples and is the
\* last min(n, 200) prices supplied for that asset, in arrival order.
C5_HistoryIsLast200 ==
    \A a \in Assets :
        /\ Len(History(a)) <= HistoryCap
        /\ History(a) = LastN(supplied[a], Min(Len(supplied[a]), HistoryCap))

C5_Witness ==
    \E a \in Assets :
        /\ Len(supplied[a]) >= HistoryCap + 2
        /\ supplied[a][Len(supplied[a])] # supplied[a][Len(supplied[a]) - 1]

\* C6: updatePriceHistory(a, p) leaves every other asset's history (and every
\* ledger) as it was; recordTrade(t) leaves every other strategy's ledger (and
\* every history) as it was, whatever the order of the calls.
C6_Isolation ==
    [][/\ op'.kind = "updatePriceHistory" =>
            /\ \A b \in Assets \ {op'.asset} :
                    /\ MapHas(priceHistory', b) = MapHas(priceHistory, b)
                    /\ getPriceHistory(priceHistory', b) = History(b)
            /\ trades' = trades
       /\ op'.kind = "recordTrade" =>
            /\ \A s \in Strategies \ {op'.trade.strategy} :
                    /\ MapHas(trades', s) = MapHas(trades, s)
                    /\ MapGetOrEmpty(trades', s) = Ledger(s)
            /\ priceHistory' = priceHistory]_vars

C6_Witness ==
    /\ op.kind = "updatePriceHistory"
    /\ \A a \in Assets : MapHas(priceHistory, a)
    /\ \E a, b \in Assets : History(a) # History(b)
    /\ \E s \in Strategies : Ledger(s) # <<>>

----------------------------------------------------------------------------
(* Properties of the dashboard's price callback *)

\* C7: every condition evaluation observes a history whose last sample is the price
\* of the tick that triggered it and whose length is within the cap (never a history
\* between an append and its cap enforcement); the evaluations of one render follow
\* the ticks in order, the last one having seen the history the render ends with.
C7_TickAtomic ==
    /\ \A i \in 1..Len(evalLog) :
            /\ evalLog[i].last = evalLog[i].price
            /\ evalLog[i].length >= MinHistory
            /\ evalLog[i].length <= DashCap
    /\ evalLog # <<>> =>
            /\ evalLog[Len(evalLog)].length = Len(dashHistory)
            /\ evalLog[Len(evalLog)].last = dashHistory[Len(dashHistory)]

C7_Witness ==
    /\ Len(evalLog) >= 2
    /\ evalLog[1].price # evalLog[Len(evalLog)].price
    /\ evalLog[1].length = DashCap
    /\ evalLog[Len(evalLog)].length = DashCap
    /\ Len(supplied["ETH/USD"]) > DashCap

----------------------------------------------------------------------------
(* Properties of PythClient and PriceMonitor *)

Unsubscribed(id) == subs[id] # Free /\ ~subs[id].active
Subscribed(id) == subs[id] # Free /\ subs[id].active

\* a symbol leaves the subscriptions map only by stopMonitoring or stopAll, which
\* call the unsubscribe function stored for it
UnsubscribeDeactivates ==
    \A symbol \in DOMAIN subscriptions :
        symbol \notin DOMAIN subscriptions' =>
            (subs'[subscriptions[symbol]] = Free \/ ~subs'[subscriptions[symbol]].active)

\* what is left to an unsubscribed loop: stay, finish the tick in flight, return
UnsubscribedWindsDown ==
    \A id \in 1..MaxSubs :
        Unsubscribed(id) =>
            \/ subs'[id] = subs[id]
            \/ subs[id].pc = "getPrice" /\ subs'[id] = [subs[id] EXCEPT !.pc = "sleep"]
            \/ subs[id].pc = "sleep" /\ subs'[id] = Free

\* C8: stopMonitoring and stopAll deactivate the loops they remove; a deactivated
\* loop is never reactivated and never starts a fetch: if a tick is in flight it
\* completes (the one step in which the callback can still run), and from its timer
\* the loop returns; and no loop stays deactivated and alive forever, so each one
\* does return.
C8_UnsubscribeTerminates ==
    /\ [][UnsubscribeDeactivates /\ UnsubscribedWindsDown]_vars
    /\ \A id \in 1..MaxSubs : []<>(~Unsubscribed(id))

C8_Witness ==
    /\ lastTick.active = FALSE
    /\ lastTick.callback = "returned"
    /\ subs = NoLoops
    /\ subscriptions = EmptyMap

\* what an active loop does: stay, be unsubscribed, go from a tick (raising or not)
\* to its timer, go from its timer to the next getPrice call
SubscribedGoesOn ==
    \A id \in 1..MaxSubs :
        Subscribed(id) =>
            \/ subs'[id] = subs[id]
            \/ subs'[id] = [subs[id] EXCEPT !.active = FALSE]
            \/ subs[id].pc = "getPrice" /\ subs'[id] = [subs[id] EXCEPT !.pc = "sleep"]
            \/ subs[id].pc = "sleep" /\ subs'[id] = [subs[id] EXCEPT !.pc = "getPrice"]

AtTimer(id) == Subscribed(id) /\ subs[id].pc = "sleep"

\* C9: a loop that has not been unsubscribed never returns, whatever its ticks do
\* (a raising getPrice or callback included): every tick takes it to its timer, and
\* it never stays at its timer forever, which it leaves only for the next getPrice
\* call or by being unsubscribed.
C9_LoopNeverHalts ==
    /\ [][SubscribedGoesOn]_vars
    /\ \A id \in 1..MaxSubs : []<>(~AtTimer(id))

C9_Witness ==
    /\ lastTick.active
    /\ lastTick.callback = "raised"
    /\ Cardinality(Ids) = 1
    /\ \A id \in Ids : Subscribed(id) /\ subs[id].pc = "getPrice" /\ id \notin starting

\* C10: getPrice never raises to its caller, for every symbol and every outcome of
\* the fetch: no tick of a poll loop sees its getPrice call throw.
C10_GetPriceNeverRaises == lastTick.getPrice # "raised"

----------------------------------------------------------------------------
(* Properties of PythClient.getPrice *)

GetPriceJustSettled == op.kind = "getPrice"
FetchFailed == GetPriceJustSettled /\ hasFeed(op.symbol) /\ op.outcome # "ok"
FetchSucceeded == GetPriceJustSettled /\ hasFeed(op.symbol) /\ op.outcome = "ok"

\* what a call hands back, given the successful fetches so far
FallbackIsLastFetched ==
    /\ FetchFailed =>
            /\ ~op.raised
            /\ IF MapHas(lastFetched, op.symbol)
               THEN op.price = lastFetched[op.symbol]
               ELSE op.price \in SimPrices(op.symbol)
    /\ FetchSucceeded => ~op.raised /\ op.price = lastFetched[op.symbol]

\* what a call does to the cache
CacheWrittenBySuccessOnly ==
    op'.kind = "getPrice" =>
        /\ op'.outcome # "ok" => priceCache' = priceCache
        /\ \A symbol \in (DOMAIN priceCache \cup DOMAIN priceCache') \ {op'.symbol} :
                /\ MapHas(priceCache', symbol) = MapHas(priceCache, symbol)
                /\ MapHas(priceCache, symbol) => priceCache'[symbol] = priceCache[symbol]

\* C11: in any sequence of getPrice calls, a call whose fetch fails returns the price
\* of the most recent successful fetch for its symbol when there is one and a
\* simulated price only when there is none; the cache holds, per symbol, exactly the
\* most recent successful fetch: a failed call leaves it as it was and a successful
\* call replaces the entry of its own symbol only.
C11_FallbackToLastFetched ==
    /\ [](FallbackIsLastFetched /\ priceCache = lastFetched)
    /\ [][CacheWrittenBySuccessOnly]_vars

C11_Witness ==
    /\ FetchFailed
    /\ MapHas(lastFetched, op.symbol)
    /\ op.price = lastFetched[op.symbol]
    /\ \E other \in DOMAIN lastFetched : lastFetched[other] # op.price

----------------------------------------------------------------------------
(* Properties of JupiterClient *)

\* C12: a failed swap request is surfaced as "no trade executed": when the swap
\* request of a buy fails, the SwapResult carries no transaction signature.
C12_FailedSwapHasNoSignature ==
    (op.kind = "buy" /\ op.swapOutcome # "ok") => op.result.txSignature = NoSignature

----------------------------------------------------------------------------
(* Properties of RebalancingEngine *)

Analyzed == op.kind = "analyzePositions"

PermittedRisks(riskTolerance) ==
    IF riskTolerance = "conservative" THEN {"low"}
    ELSE IF riskTolerance = "balanced" THEN {"low", "medium"}
    ELSE {"low", "medium", "high"}

\* C13: every recommendation of analyzePositions names a target in another protocol
\* than the position's, with an APY more than 5 points above the position's, and of
\* a risk level the tolerance permits.
C13_RecommendationsQualify ==
    Analyzed =>
        \A i \in 1..Len(op.result) :
            LET r == op.result[i]
            IN  /\ r.to.protocol # r.from.protocol
                /\ r.to.apy - r.from.apy > 50
                /\ r.to.risk \in PermittedRisks(op.riskTolerance)

\* a balanced call with a Kamino position, for which the best ranked yield (one of
\* Kamino) is passed over and Jupiter's is recommended, and a position in the pool
\* of the highest APY, which gets nothing
C13_Witness ==
    /\ Analyzed
    /\ op.riskTolerance = "balanced"
    /\ Len(op.positions) = 2
    /\ op.positions[1].protocol = "Kamino" /\ op.positions[1].apy = 187
    /\ op.positions[2].apy = 892
    /\ Len(op.result) = 1
    /\ op.result[1].to.protocol = "Jupiter"

\* the candidates that qualify for a position under a tolerance
Qualifying(position, riskTolerance) ==
    { i \in 1..Len(getAllYields) :
        /\ getAllYields[i].risk \in PermittedRisks(riskTolerance)
        /\ getAllYields[i].apy - position.apy > 50
        /\ getAllYields[i].protocol # position.protocol }

\* apy / (1 + score / 100) of a yield, with the score the documented sum
RiskAdjusted(y) ==
    LET sum == baseRisk(y.risk) * 10 + Max(0, 200 - y.tvl) + (IF y.apy > 1000 THEN 150 ELSE 0)
    IN  Rat(y.apy * 1000, 1000 + (IF sum > 1000 THEN 1000 ELSE sum))

Listed(position) ==
    \E i \in 1..Len(getAllYields) :
        getAllYields[i].protocol = position.protocol /\ getAllYields[i].pool = position.pool

\* the result is one recommendation for each of the positions `served`, in their
\* order, each to a qualifying candidate no other qualifying candidate outranks
OnePerPosition(served) ==
    /\ Len(op.result) = Len(served)
    /\ \A i \in 1..Len(served) :
          /\ i <= Len(op.result)
          /\ op.result[i].from = served[i]
          /\ \E k \in Qualifying(served[i], op.riskTolerance) :
                /\ op.result[i].to = getAllYields[k]
                /\ \A j \in Qualifying(served[i], op.riskTolerance) :
                      ~RatGt(RiskAdjusted(getAllYields[j]), RiskAdjusted(getAllYields[k]))

\* C14 as stated: exactly one recommendation for each position with a qualifying
\* candidate, none for the others, in position order, each to the qualifying
\* candidate of the highest risk-adjusted return.
C14_OnePerQualifyingPosition ==
    Analyzed =>
        OnePerPosition(SelectSeq(op.positions,
                                 LAMBDA p : Qualifying(p, op.riskTolerance) # {}))

\* C14 amended: the same, for the positions whose protocol and pool are among the
\* listed yields; a position in an unlisted pool gets no recommendation.
C14_OnePerListedQualifyingPosition ==
    Analyzed =>
        OnePerPosition(SelectSeq(op.positions,
                                 LAMBDA p : Listed(p) /\ Qualifying(p, op.riskTolerance) # {}))

\* two recommendations in position order out of a call, and a call where the only
\* position with a candidate that gets nothing is the one in an unlisted pool
C14_Witness ==
    /\ Analyzed
    /\ Len(op.positions) = 2
    /\ Listed(op.positions[1]) /\ Qualifying(op.positions[1], op.riskTolerance) # {}
    /\ ~Listed(op.positions[2]) /\ Qualifying(op.positions[2], op.riskTolerance) # {}
    /\ Len(op.result) = 1
    /\ op.result[1].from = op.positions[1]
    /\ Cardinality(Qualifying(op.positions[1], op.riskTolerance)) > 1

Scored == op.kind = "calculateRiskScore"

\* base + max(0, 20 - tvl / 10,000,000) + (15 if apy > 100), in tenths
DocumentedScore(y) ==
    (IF y.risk = "low" THEN 200 ELSE IF y.risk = "medium" THEN 500 ELSE 800)
        + (IF 200 - y.tvl > 0 THEN 200 - y.tvl ELSE 0)
        + (IF y.apy > 1000 THEN 150 ELSE 0)

\* C15: for a yield of tvl >= 0 the risk score is the documented sum, cut off at 100,
\* and lies in [0, 100].
C15_RiskScoreClamped ==
    (Scored /\ op.yield.tvl >= 0) =>
        /\ op.result = Min(1000, DocumentedScore(op.yield))
        /\ op.result >= 0 /\ op.result <= 1000

\* a high-risk pool of small tvl and an APY over 100 %: the sum is 115, the score 100
C15_Witness ==
    /\ Scored
    /\ op.yield.tvl >= 0
    /\ DocumentedScore(op.yield) = 1150
    /\ op.result = 1000

Allocated == op.kind = "generateOptimalAllocation"

Weight(riskTolerance, risk) ==
    IF riskTolerance = "conservative"
    THEN (IF risk = "low" THEN 80 ELSE IF risk = "medium" THEN 15 ELSE 5)
    ELSE IF riskTolerance = "balanced"
    THEN (IF risk = "low" THEN 40 ELSE IF risk = "medium" THEN 45 ELSE 15)
    ELSE (IF risk = "low" THEN 20 ELSE IF risk = "medium" THEN 40 ELSE 40)

Bucket(risk) == { i \in 1..Len(getAllYields) : getAllYields[i].risk = risk }

\* the yields of a risk level that the result holds
Selected(risk) ==
    { i \in Bucket(risk) : \E k \in 1..Len(op.result) : op.result[k].yield = getAllYields[i] }

\* C16: generateOptimalAllocation returns, per risk bucket, only the (at most three)
\* yields of that level with the highest APY, each with
\* totalValue * weight(bucket) / (number selected in the bucket).
C16_TopThreePerBucket ==
    Allocated =>
        /\ \A k \in 1..Len(op.result) :
              \E i \in 1..Len(getAllYields) : op.result[k].yield = getAllYields[i]
        /\ \A k, l \in 1..Len(op.result) :
              op.result[k].yield = op.result[l].yield => k = l
        /\ \A risk \in RiskLevels :
              /\ Cardinality(Selected(risk)) = Min(3, Cardinality(Bucket(risk)))
              /\ \A i \in Selected(risk), j \in Bucket(risk) \ Selected(risk) :
                    getAllYields[i].apy >= getAllYields[j].apy
              /\ \A k \in 1..Len(op.result) :
                    op.result[k].yield.risk = risk =>
                        \* totalValue * (weight / number selected), as numbers
                        RatEq(op.result[k].allocation,
                              fmul(Rat(op.totalValue, 1),
                                   fdiv(fl(Rat(Weight(op.riskTolerance, risk), 100)),
                                        Rat(Cardinality(Selected(risk)), 1))))

\* a balanced allocation of 12: the low bucket drops one of its four yields, the
\* high bucket holds one yield, which gets the whole 15 %
C16_Witness ==
    /\ Allocated
    /\ op.riskTolerance = "balanced" /\ op.totalValue = 12
    /\ Cardinality(Bucket("low")) > 3 /\ Cardinality(Selected("low")) = 3
    /\ Cardinality(Selected("high")) = 1
    /\ Len(op.result) = 7
    /\ RatEq(op.result[1].allocation, Rat(14, 8))
    /\ RatEq(op.result[7].allocation, Rat(15, 8))

----------------------------------------------------------------------------
(* Properties of StrategyExecutor.checkCondition, IndicatorCalculator, StrategyParser *)

\* C17 as stated: for a price condition the result is decided by the change between
\* the last two history samples, (h[n-1] - h[n-2]) / h[n-2] * 100, whatever the
\* current price: '<' is true exactly when change < -value, '>' exactly when
\* change > value.
C17_PriceUsesLastTwoSamples ==
    (op.kind = "checkCondition" /\ op.condition.type = "price") =>
        LET n == Len(op.history)
            last == op.history[n]
            prev == op.history[n - 1]
        IN  op.result =
                IF op.condition.condition = "<"
                THEN (last - prev) * 100 < (0 - op.condition.value) * prev
                ELSE (last - prev) * 100 > op.condition.value * prev

\* the last `period` deltas of the prices hold no loss
NoLossInWindow(prices, period) ==
    \A i \in (Len(prices) - period + 1)..Len(prices) : prices[i] >= prices[i - 1]

RSIAsDocumented ==
    /\ ~op.result.nan /\ op.result.value \in 0..10000
    /\ Len(op.prices) < op.period + 1 => op.result = Number(5000)
    /\ (Len(op.prices) >= op.period + 1 /\ NoLossInWindow(op.prices, op.period))
            => op.result = Number(10000)

\* C18 as stated: calculateRSI(prices, period) is always in [0, 100], exactly 50 on
\* fewer than period + 1 samples and exactly 100 when the last period deltas hold no
\* loss.
C18_RSIInRange == op.kind = "calculateRSI" => RSIAsDocumented

\* the same for a period of at least 1, which holds
RSIInRangeForPositivePeriod == (op.kind = "calculateRSI" /\ op.period >= 1) => RSIAsDocumented

Averaged == op.kind \in {"calculateSMA", "calculateEMA"}

Latest(prices) == Rat(prices[Len(prices)], 1)
Constant(prices) == \A i \in 1..Len(prices) : prices[i] = prices[1]

\* the sums c, 2c, ... of `period` prices c are numbers: adding them up rounds nothing
SumsExact(c, period) == \A k \in 1..period : RatEq(fl(Rat(k * c, 1)), Rat(k * c, 1))

\* C19 as stated: on a non-empty sequence and a period >= 1, calculateSMA and
\* calculateEMA return the latest price when there are fewer than period samples, and
\* return c when every price is c.
C19_AveragesOfConstant ==
    (Averaged /\ op.prices # <<>> /\ op.period >= 1) =>
        /\ Len(op.prices) < op.period => RatEq(op.result, Latest(op.prices))
        /\ Constant(op.prices) => RatEq(op.result, Latest(op.prices))

\* C19 amended: the latest price on fewer than period samples; c on a constant
\* sequence when the sums c, 2c, ..., period * c are exact in the number format.
C19_AveragesOfConstantExactSums ==
    (Averaged /\ op.prices # <<>> /\ op.period >= 1) =>
        /\ Len(op.prices) < op.period => RatEq(op.result, Latest(op.prices))
        /\ (Constant(op.prices) /\ SumsExact(op.prices[1], op.period))
                => RatEq(op.result, Latest(op.prices))

\* an EMA over a full window and one more sample of a constant whose sums are exact
C19_Witness ==
    /\ op.kind = "calculateEMA"
    /\ op.period >= 2
    /\ Len(op.prices) > op.period
    /\ Constant(op.prices) /\ SumsExact(op.prices[1], op.period)
    /\ RatEq(op.result, Latest(op.prices))

Parsed == op.kind = "parseStrategy"

\* C20: parseStrategy("Buy SOL when RSI drops below 30, sell when it crosses 70, max
\* position $500") yields asset "SOL/USDC", entry.indicator "RSI", entry.condition "<",
\* entry.value 30 and maxPosition 500.
C20_ReadmeExampleParses ==
    (Parsed /\ op.input = ReadmeText) =>
        /\ op.result.asset = "SOL/USDC"
        /\ op.result.entry.indicator = "RSI"
        /\ op.result.entry.condition = "<"
        /\ op.result.entry.value = 30
        /\ op.result.maxPosition = 500

\* what the two README texts parse to is what the strategies listed above hold
ParsedAsListed ==
    /\ (Parsed /\ op.input = ReadmeText)
            => [f \in DOMAIN SolStrategy |-> op.result[f]] = SolStrategy
    /\ (Parsed /\ op.input = DropText)
            => [f \in DOMAIN DropStrategy |-> op.result[f]] = DropStrategy

\* C21: parseStrategy("Buy SOL when RSI < 30, sell when RSI > 70, max $500") yields
\* asset "SOL/USDC", entry RSI '<' 30, exit RSI '>' 70, maxPosition 500 and
\* executionType "market".
C21_SymbolsExampleParses ==
    (Parsed /\ op.input = SymbolsText) =>
        /\ op.result.asset = "SOL/USDC"
        /\ op.result.entry.indicator = "RSI"
        /\ op.result.entry.condition = "<" /\ op.result.entry.value = 30
        /\ op.result.exit.indicator = "RSI"
        /\ op.result.exit.condition = ">" /\ op.result.exit.value = 70
        /\ op.result.maxPosition = 500
        /\ op.result.executionType = "market"

\* words an extraction of the parser looks for; every other pattern needs a digit
ParserWords ==
    { <<"r", "s", "i">>,
      <<"p", "r", "i", "c", "e">>,
      <<"d", "r", "o", "p", "s">>,
      <<"r", "i", "s", "e", "s">>,
      <<"m", "a", "c", "d">>,
      <<"b", "o", "l", "l", "i", "n", "g", "e", "r">>,
      <<"b", "b">>,
      <<"b", "t", "c">>,
      <<"b", "i", "t", "c", "o", "i", "n">>,
      <<"e", "t", "h">>,
      <<"e", "t", "h", "e", "r", "e", "u", "m">>,
      <<"l", "i", "m", "i", "t">> }

\* the text holds nothing the parser looks for
MatchesNoPattern(input) ==
    LET text == toLowerCase(input)
    IN  /\ \A i \in 1..Len(text) : ~IsDigit(text[i])
        /\ \A w \in ParserWords : ~includes(text, w)

ParsedStrategyFields ==
    {"name", "asset", "entry", "exit", "maxPosition", "riskPercent", "executionType",
     "stopLoss", "takeProfit"}

\* C22: parseStrategy returns a ParsedStrategy for every input, and for an input that
\* matches no pattern the documented defaults: asset SOL/USDC, entry price '<' 100
\* (15m), exit price '>' 100 (15m), maxPosition 500, riskPercent 10, stopLoss and
\* takeProfit undefined, executionType market.
C22_DefaultsWithoutPattern ==
    Parsed =>
        /\ DOMAIN op.result = ParsedStrategyFields
        /\ MatchesNoPattern(op.input) =>
              /\ op.result.asset = "SOL/USDC"
              /\ op.result.entry.type = "price" /\ op.result.entry.condition = "<"
              /\ op.result.entry.value = 100 /\ op.result.entry.timeframe = "15m"
              /\ op.result.exit.type = "price" /\ op.result.exit.condition = ">"
              /\ op.result.exit.value = 100 /\ op.result.exit.timeframe = "15m"
              /\ op.result.maxPosition = 500
              /\ op.result.riskPercent = 10
              /\ op.result.stopLoss = <<>> /\ op.result.takeProfit = <<>>
              /\ op.result.executionType = "market"

\* a text of a few words, none of them known to the parser, has been parsed
C22_Witness ==
    /\ Parsed
    /\ Len(op.input) > 4
    /\ MatchesNoPattern(op.input)
    /\ op.result.maxPosition = 500

\* an RSI, price, MACD or Bollinger pattern matches the text
ConditionPatternMatches(input) ==
    LET text == toLowerCase(input)
    IN  \/ includes(text, <<"r", "s", "i">>) /\ rsiMatch(text) # NoMatch
        \/ /\ \/ includes(text, <<"p", "r", "i", "c", "e">>)
              \/ includes(text, <<"d", "r", "o", "p", "s">>)
              \/ includes(text, <<"r", "i", "s", "e", "s">>)
           /\ matchPercent(text) # NoMatch
        \/ includes(text, <<"m", "a", "c", "d">>)
        \/ includes(text, <<"b", "o", "l", "l", "i", "n", "g", "e", "r">>)
        \/ includes(text, <<"b", "b">>)

RsiChecked ==
    /\ op.kind = "checkCondition"
    /\ op.condition.type = "indicator" /\ op.condition.indicator = "RSI"

\* the RSI of 14 periods, in hundredths, with 50 on fewer than 15 samples
Rsi14(history) == calculateRSI(history, 14).value
WithoutLast(history) == SubSeq(history, 1, Len(history) - 1)

\* C23: for an RSI condition, 'crosses_above' is true exactly when the RSI of the
\* history without its last sample is below the value and the RSI of the full
\* history above it, 'crosses_below' exactly when the former is above and the latter
\* below; each RSI falls back to 50 on its own input.
C23_RsiCrossings ==
    RsiChecked =>
        /\ op.condition.condition = "crosses_above" =>
              op.result = (/\ Rsi14(WithoutLast(op.history)) < op.condition.value * 100
                           /\ Rsi14(op.history) > op.condition.value * 100)
        /\ op.condition.condition = "crosses_below" =>
              op.result = (/\ Rsi14(WithoutLast(op.history)) > op.condition.value * 100
                           /\ Rsi14(op.history) < op.condition.value * 100)

\* a crossing on 16 samples, where both RSIs are computed
C23_Witness ==
    /\ RsiChecked
    /\ op.condition.condition = "crosses_above"
    /\ Len(op.history) = 16
    /\ Rsi14(WithoutLast(op.history)) = 0
    /\ op.result

\* a crossing on 15 samples: the previous RSI is the fallback 50
RsiCrossingFromFallback ==
    /\ RsiChecked
    /\ op.condition.condition = "crosses_below"
    /\ Len(op.history) = 15
    /\ op.result

----------------------------------------------------------------------------
(* Properties of the max drawdown *)

\* the running sum of realized pair pnls up to and including pair k
CumulativePnL(ts, k) == SumPairPnL(ts, {j \in RealizedPairs(ts) : j <= k})

\* the highest running sum reached at a realized pair up to and including pair k
PeakOverPairs(ts, k) ==
    LET sums == { CumulativePnL(ts, j) : j \in {i \in RealizedPairs(ts) : i <= k} }
    IN  CHOOSE x \in sums : \A y \in sums : x >= y

\* the same, counting the sum 0 before the first pair
PeakFromZero(ts, k) == Max(0, PeakOverPairs(ts, k))

DrawdownAt(peak, cumulative) == Rat((peak - cumulative) * 100, Max(peak, 1))

\* C24 as stated: maxDrawdown is the maximum over the realized pairs of
\* (peak - cumulative) / max(peak, 1) * 100, with peak the highest cumulative P&L at a
\* pair up to and including that one.
C24_MaxDrawdownOverPairs ==
    PerfJustComputed =>
        LET ts == PerfLedger
            dd(k) == DrawdownAt(PeakOverPairs(ts, k), CumulativePnL(ts, k))
        IN  IF RealizedPairs(ts) = {} THEN RatIsZero(perf.maxDrawdown)
            ELSE /\ \E k \in RealizedPairs(ts) : RatEq(perf.maxDrawdown, dd(k))
                 /\ \A k \in RealizedPairs(ts) : ~RatGt(dd(k), perf.maxDrawdown)

\* C24 amended: the same with a peak that starts at 0, the sum before the first pair:
\* peak is the highest of 0 and the cumulative P&L at the pairs up to and including
\* that one.
C24_MaxDrawdownPeakFromZero ==
    PerfJustComputed =>
        LET ts == PerfLedger
            dd(k) == DrawdownAt(PeakFromZero(ts, k), CumulativePnL(ts, k))
        IN  IF RealizedPairs(ts) = {} THEN RatIsZero(perf.maxDrawdown)
            ELSE /\ \E k \in RealizedPairs(ts) : RatEq(perf.maxDrawdown, dd(k))
                 /\ \A k \in RealizedPairs(ts) : ~RatGt(dd(k), perf.maxDrawdown)

\* a ledger that loses 10 on its first pair and wins it back on the second: the
\* drawdown is measured from the peak 0
C24_Witness ==
    /\ PerfJustComputed
    /\ RealizedPairs(PerfLedger) = {1, 2}
    /\ PairPnL(PerfLedger, 1) = -10 /\ PairPnL(PerfLedger, 2) = 10
    /\ RatEq(perf.maxDrawdown, Rat(1000, 1))

\* a ledger that wins 10 and then loses 10: a drawdown of 100 % from the peak 10
DrawdownFromPeak ==
    /\ PerfJustComputed
    /\ RealizedPairs(PerfLedger) = {1, 2}
    /\ PairPnL(PerfLedger, 1) = 10 /\ PairPnL(PerfLedger, 2) = -10
    /\ RatEq(perf.maxDrawdown, Rat(100, 1))

----------------------------------------------------------------------------
(* Properties of the dashboard's trades *)

\* a ledger that goes buy, sell, buy, sell, ...
Alternates(ts) ==
    \A i \in 1..Len(ts) : ts[i].type = (IF i % 2 = 1 THEN "buy" ELSE "sell")

\* C26: every ledger the monitoring loop produces alternates buy, sell, buy, sell, ...:
\* a buy is executed only with no open position, a sell only after an unmatched buy,
\* so no ledger holds two consecutive buys.
C26_LedgersAlternate ==
    /\ Alternates(tradesState)
    /\ \A s \in DOMAIN trades : Alternates(trades[s])

----------------------------------------------------------------------------
(* Properties of PriceMonitor's subscriptions *)

\* the poll loops of a symbol whose `active` flag is set
ActiveLoops(symbol) == {i \in Ids : subs[i].symbol = symbol /\ subs[i].active}

\* C27: at most one poll loop is active per symbol, also when two startMonitoring
\* calls for the symbol are issued before either completes.
C27_OneActiveLoopPerSymbol ==
    \A symbol \in Assets : Cardinality(ActiveLoops(symbol)) <= 1

\* stopMonitoring(symbol) leaves no active poll loop for the symbol
StopMonitoringStopsAll ==
    [][\A symbol \in Assets :
          StopMonitoring(symbol) =>
              \A i \in 1..MaxSubs : subs'[i] # Free /\ subs'[i].symbol = symbol => ~subs'[i].active]_vars

----------------------------------------------------------------------------
(* Properties of an activated strategy *)

\* the dashboard's price callback has been invoked
CallbackInvoked == tickCount > 0

\* the asset of the parsed strategy has an entry in PYTH_PRICE_FEEDS
ParsedAssetHasFeed == parsedStrategy # NoStrategy => hasFeed(parsedStrategy.asset)

\* C28: every asset the parser produces has a Pyth price feed, so once a strategy is
\* activated the poll loop eventually invokes the price callback (unless the strategy
\* is stopped first).
C28_ActivationReachesCallback == [](isMonitoring => <>(~isMonitoring \/ CallbackInvoked))

----------------------------------------------------------------------------
(* Properties of analyzePositions on positions in unlisted pools *)

\* C29: analyzePositions emits no recommendation for a position whose protocol and
\* pool are not among the listed yields, and skipping it does not change what the
\* other positions get: the result is the result for the listed positions alone.
C29_UnlistedPositionsSkipped ==
    Analyzed =>
        /\ \A i \in 1..Len(op.result) : Listed(op.result[i].from)
        /\ op.result = analyzePositions(SelectSeq(op.positions, Listed), op.riskTolerance)

\* a call whose first position is in an unlisted pool, although better yields exist
\* for it, and whose second position gets its recommendation
C29_Witness ==
    /\ Analyzed
    /\ Len(op.positions) = 2
    /\ ~Listed(op.positions[1]) /\ Qualifying(op.positions[1], op.riskTolerance) # {}
    /\ Listed(op.positions[2])
    /\ Len(op.result) = 1
    /\ op.result[1].from = op.positions[2]

----------------------------------------------------------------------------
(* Properties of the sum of an allocation *)

\* a + b, exactly, for numbers (their denominators are powers of two)
DyadicSum(a, b) ==
    LET den == Max(a[2], b[2])
    IN  Rat(a[1] * (den \div a[2]) + b[1] * (den \div b[2]), den)

\* the exact sum of the amounts of the first k entries
RECURSIVE AllocatedSum(_, _)
AllocatedSum(entries, k) ==
    IF k = 0 THEN RatZero ELSE DyadicSum(AllocatedSum(entries, k - 1), entries[k].allocation)

EveryBucketHasYield == \A risk \in RiskLevels : Bucket(risk) # {}

\* a risk level without a yield has no entry
EmptyBucketsHaveNoEntry ==
    \A risk \in RiskLevels :
        Bucket(risk) = {} => \A k \in 1..Len(op.result) : op.result[k].yield.risk # risk

\* C30 as stated: the amounts generateOptimalAllocation returns sum to totalValue, for
\* every risk tolerance, when every risk level has a yield; a risk level without a
\* yield contributes no entry.
C30_AllocationsSumToTotal ==
    Allocated =>
        /\ EveryBucketHasYield =>
                RatEq(AllocatedSum(op.result, Len(op.result)), Rat(op.totalValue, 1))
        /\ EmptyBucketsHaveNoEntry

\* C30 amended: the amounts sum to totalValue up to the rounding of the three
\* floating-point operations behind each amount (the weight literal, the division by
\* the bucket size, the product): the exact sum differs from totalValue by at most
\* 4 * 2^-MantissaBits * totalValue.
C30_AllocationsSumToTotalRounded ==
    Allocated =>
        /\ EveryBucketHasYield =>
                LET sum == AllocatedSum(op.result, Len(op.result))
                    diff == sum[1] - op.totalValue * sum[2]
                IN  (IF diff < 0 THEN 0 - diff ELSE diff) * Pow2(MantissaBits)
                        <= 4 * op.totalValue * sum[2]
        /\ EmptyBucketsHaveNoEntry

\* a conservative allocation of 10 over seven yields whose amounts do not add up to
\* exactly 10
C30_Witness ==
    /\ Allocated
    /\ op.riskTolerance = "conservative" /\ op.totalValue = 10
    /\ EveryBucketHasYield
    /\ Len(op.result) = 7
    /\ ~RatEq(AllocatedSum(op.result, Len(op.result)), Rat(10, 1))

====
